---- MODULE Spec2Model ----
(***************************************************************************)
(* Model of stainless-tools: the Debounced Publish Coordinator             *)
(* (FileWatcher), the Repository Synchronization Engine (RepoManager) and  *)
(* the orchestrator (generateAndWatchSDK, StainlessTools.clone).           *)
(*                                                                         *)
(* Every await in the TypeScript source is a suspension point, so every    *)
(* awaited call (git command, file read, hook, upload) is one action whose *)
(* outcome (resolve / reject) is chosen by the environment.  Code between  *)
(* two awaits runs atomically on the single-threaded event loop.           *)
(***************************************************************************)
EXTENDS Integers, Sequences, FiniteSets, TLC

(***************************************************************************)
(* Bounds and program constants                                            *)
(***************************************************************************)
\* setTimeout(..., 1000) in the change handler
DebounceDelay == 1000

\* the clock advances in half-windows
Tick == DebounceDelay \div 2

\* how many timer handles the model can tell apart
MaxTimers == 2

\* how many publishFiles() calls the model lets run at once
MaxInFlight == 2

\* ghost counter caps
MaxBurst == 3

\* how many watch handles the model can tell apart
MaxWatchers == 2

\* how many stash entries the model lets pile up
MaxStash == 3

\* how many commits the remote branch receives
MaxCommits == 1

\* how many poll timers and poll cycles the model can tell apart
MaxPolls == 2

\* how many attempts of waitForRemoteBranch the model counts
MaxWaits == 2

Files == {"spec", "config"}

VARIABLES
    \* ---- FileWatcher fields ----
    openApiFile,        \* options.openApiFile is configured
    stainlessConfigFile,\* options.stainlessConfigFile is configured
    prePublishHook,     \* options.lifecycleManager && options.sdkName
    watchers,           \* number of open chokidar watch handles with a change handler
    isWatching,         \* this.isWatching
    publishTimeout,     \* this.publishTimeout: 0 = undefined, else a timer handle
    isPublishing,       \* this.isPublishing
    \* ---- event loop ----
    timers,             \* pending setTimeout timers: records [id, remaining]
    pubs,               \* publishFiles() calls in flight (sequence of records)
    \* ---- observation (history) variables ----
    sinceChange,        \* time since the last change event, capped at DebounceDelay
    eventsPending,      \* change events accepted and not yet served by a publish
    burstPubs,          \* publishFiles() calls started for the current burst
    arrivedDuringPublish, \* the last change event arrived while a publish was executing
    lastSettle,         \* how the last publishFiles() call ended: "none", "resolved", "rejected"
    lastCall,           \* the last start() or stop() call and the isWatching it found
    publishError,       \* the StainlessError the last settled publishFiles() call rejected with
    unpublished         \* watched files holding an edit no upload has carried

watcherVars == <<openApiFile, stainlessConfigFile, prePublishHook, watchers,
                 isWatching, publishTimeout, isPublishing, timers, pubs,
                 sinceChange, eventsPending, burstPubs, arrivedDuringPublish,
                 lastSettle, publishError, lastCall, unpublished>>

watcherCfg == <<openApiFile, stainlessConfigFile, prePublishHook>>

VARIABLES
    \* ---- RepoManager options and the directory it finds ----
    sdkName,            \* options.sdkName is set (lifecycle hooks run)
    dirIsRepo,          \* the target directory already holds a git repository
    originUrl,          \* remotes[0].refs.fetch of that repository (NoUrl: none)
    sdkRepo,            \* options.sdkRepo
    \* ---- the git working copy and the remote ----
    treeDirty,          \* !status.isClean()
    stash,              \* stash entries, newest first: "engine" or "user"
    headOnTarget,       \* HEAD is on options.branch
    remoteBranch,       \* origin/<branch> exists on the remote
    \* ---- commits: remote commits are numbered, a hash is <<base, own>> ----
    localBase,          \* newest remote commit the local branch contains
    localOwn,           \* the local branch carries a commit the remote does not have
    originRef,          \* the remote-tracking ref origin/<branch>: newest commit fetched
    remoteTip,          \* newest commit of the branch on the remote
    trackedBranch,      \* the ref origin/<branch> exists locally (git branch -r lists it)
    \* ---- waitForRemoteBranch(): observation (history) variables ----
    waitAttempts,       \* attempts the wait in progress has made without seeing the ref, capped
    lastAttempt,        \* "none", "fetch failed", "list failed", "absent", "present"
    \* ---- hasNewChanges() ----
    checkLocal,         \* its local const localHash
    checkResult,        \* the value its last call returned
    \* ---- control state of the engine ----
    initState,          \* initializeRepo(): "none", "running", "ready", "failed"
    rpc,                \* the await the engine is suspended on
    op,                 \* operation in progress or last run: "clone", "switch", "pull", "check"
    hasLocalChanges,    \* the local const of pullChanges / handleBranchSwitch
    outcome,            \* how op ended: "none", "returned", "threw", "exited"
    exitCode,           \* 0 while the process runs, else the code given to process.exit
    thrown,             \* the error the last rejected operation threw
    cmds                \* commands, hooks and notices issued by op, in order

repoCfg == <<sdkName, dirIsRepo, originUrl, sdkRepo>>

repoEnv == <<treeDirty, stash, headOnTarget, remoteBranch>>

repoCtl == <<initState, rpc, op, hasLocalChanges, outcome, exitCode, thrown, cmds>>

repoRefs == <<localBase, localOwn, originRef, remoteTip, trackedBranch>>

repoWait == <<waitAttempts, lastAttempt>>

repoCheck == <<checkLocal, checkResult>>

repoVars == <<repoCfg, repoEnv, repoRefs, repoCheck, repoWait, repoCtl>>

VARIABLES
    \* ---- generateAndWatchSDK and StainlessTools.clone ----
    phase,              \* "library": the classes are driven by their caller directly;
                        \* else "new", "publishing", "initializing", "polling",
                        \* "stopped" (cleanup was called), "rejected"
    isPolling,          \* let isPolling
    pollTimers,         \* pending setTimeout(pollForChanges, ...) timers
    cycles,             \* pollForChanges() calls past their isPolling guard, in flight
    cycle,              \* the await the poll cycle is suspended on: "none", "check", "pull"
    \* ---- observation (history) variables ----
    firstPublish,       \* clone()'s publishFiles(): "none", "running", "resolved", "rejected"
    logged,             \* message of the last error the poll loop logged
    \* ---- generateAction (cli/commands/generate.ts) and the process ----
    handlersOn,         \* handleExit is registered for SIGINT and SIGTERM
    procEnd             \* "running", "exit 0" (handleExit), "killed" (signal, no handler)

orchVars == <<phase, isPolling, pollTimers, cycles, cycle, firstPublish, logged,
              handlersOn, procEnd>>

vars == <<watcherVars, repoVars, orchVars>>

(***************************************************************************)
(* Helpers                                                                 *)
(***************************************************************************)
Min(a, b) == IF a < b THEN a ELSE b

Max(a, b) == IF a > b THEN a ELSE b

RemoveAt(s, i) == [j \in 1..(Len(s) - 1) |-> IF j < i THEN s[j] ELSE s[j + 1]]

\* variant: clearTimeout leaves the timer pending
ClearTimeoutIgnored(ts, handle) == ts

\* clearTimeout(handle): a fired or unknown handle is a no-op
ClearTimeout(ts, handle) == {t \in ts : t.id # handle}

\* setTimeout returns a handle no pending timer uses
FreshTimerId(ts) == CHOOSE i \in 1..(MaxTimers + 1) : \A t \in ts : t.id # i

WatchPaths == (IF openApiFile THEN {"spec"} ELSE {}) \cup
              (IF stainlessConfigFile THEN {"config"} ELSE {})

(***************************************************************************)
(* FileWatcher                                                             *)
(***************************************************************************)
\* wraps: the lower-level failure the error was raised for ("none": the error
\* was raised on its own); cause: what was passed as the cause argument
NoPublishError == [msg |-> "none", wraps |-> "none", cause |-> "none"]

\* how the POST of StainlessApi.publish() can fail: fetch() resolves with a
\* response that is not ok, or fetch() itself rejects
PublishFailures == {"response not ok", "fetch rejected"}

\* the StainlessError StainlessApi.publish() rejects with (part_009 lines 89-107)
ApiError(kind) ==
    IF kind = "response not ok"
    THEN [msg |-> "API Error", wraps |-> "none", cause |-> "none"]
    ELSE [msg |-> "Failed to publish to Stainless API", wraps |-> "fetch", cause |-> "none"]

\* the StainlessError publishFiles() rejects with when it fails at step pc
PublishErrorAt(pc, kind) ==
    CASE pc = "start" ->        \* part_008 line 135
             [msg |-> "OpenAPI specification file is required",
              wraps |-> "none", cause |-> "none"]
      [] pc = "hook" ->         \* LifecycleManager.ts line 106, rethrown at part_008 line 189
             [msg |-> "Failed to execute prePublishSpec command",
              wraps |-> "command", cause |-> "command"]
      [] pc = "readSpec" ->     \* part_008 line 152
             [msg |-> "Failed to read OpenAPI file", wraps |-> "readFile", cause |-> "readFile"]
      [] pc = "readConfig" ->   \* part_008 line 159
             [msg |-> "Failed to read Stainless config file",
              wraps |-> "readFile", cause |-> "readFile"]
      [] OTHER ->               \* part_008 lines 179-181: a StainlessError is rethrown as it is
             ApiError(kind)

WatcherInit ==
    /\ openApiFile \in BOOLEAN
    /\ stainlessConfigFile \in BOOLEAN
    /\ prePublishHook \in BOOLEAN
    /\ watchers = 0
    /\ isWatching = FALSE
    /\ publishTimeout = 0
    /\ isPublishing = FALSE
    /\ timers = {}
    /\ pubs = <<>>
    /\ sinceChange = DebounceDelay
    /\ eventsPending = 0
    /\ burstPubs = 0
    /\ arrivedDuringPublish = FALSE
    /\ lastSettle = "none"
    /\ lastCall = "none"
    /\ publishError = NoPublishError
    /\ unpublished = {}

\* variant: start() has no guard against a second call
StartAlwaysCreates(watching) == TRUE

\* start(): part_008 lines 35-112; if (this.isWatching) return (lines 41-43)
StartCreatesWatcher(watching) == ~watching

StartWatching ==
    /\ WatchPaths # {}
    /\ watchers < MaxWatchers
    /\ IF StartCreatesWatcher(isWatching)
       THEN /\ watchers' = watchers + 1
            /\ isWatching' = TRUE
       ELSE UNCHANGED <<watchers, isWatching>>
    /\ lastCall' = IF isWatching THEN "start while watching" ELSE "start"

\* start() called by the owner of the FileWatcher
Start ==
    /\ phase = "library"
    /\ StartWatching
    /\ UNCHANGED <<repoVars, orchVars, watcherCfg, publishTimeout,
                   isPublishing, timers, pubs, sinceChange, eventsPending,
                   burstPubs, arrivedDuringPublish, lastSettle, publishError, unpublished>>

\* variant: stop() leaves the debounce timer pending
StopKeepsTimer(ts, handle) == ts

\* if (this.publishTimeout) clearTimeout(this.publishTimeout) (lines 118-121)
StopClears(ts, handle) == IF handle # 0 THEN ClearTimeout(ts, handle) ELSE ts

\* stop(): part_008 lines 117-127
StopWatching ==
    /\ timers' = StopClears(timers, publishTimeout)
    /\ publishTimeout' = 0
    /\ watchers' = Max(0, watchers - 1)
    /\ isWatching' = FALSE
    /\ eventsPending' = 0
    /\ lastCall' = IF ~isWatching THEN "stop while stopped"
                   ELSE IF \E t \in timers : t.id = publishTimeout
                   THEN "stop with timer pending"
                   ELSE "stop"

\* stop() called by the owner of the FileWatcher
Stop ==
    /\ phase = "library"
    /\ StopWatching
    /\ UNCHANGED <<repoVars, orchVars, watcherCfg, isPublishing,
                   pubs, sinceChange, burstPubs, arrivedDuringPublish, lastSettle, publishError,
                   unpublished>>

\* variant: the handler leaves the previous timer pending
HandlerKeepsTimer(ts, handle) == ts

\* the change handler clears the previous timer first (lines 66-69)
HandlerClears(ts, handle) == IF handle # 0 THEN ClearTimeout(ts, handle) ELSE ts

\* variant: the handler schedules a timer even while a publish runs
HandlerAlwaysSchedules(publishing) == TRUE

\* the change handler schedules a timer unless a publish is running (lines 72-76)
HandlerSchedules(publishing) == ~publishing

\* the delay handed to setTimeout (line 105)
TimerDelay == DebounceDelay

\* a change of file f makes every running publish that already read f stale
MarkStale(ps, f) == [i \in 1..Len(ps) |->
                       IF f \in ps[i].read
                       THEN [ps[i] EXCEPT !.missed = @ \cup {f}]
                       ELSE ps[i]]

\* watcher.on("change", ...): part_008 lines 63-111
Change(f) ==
    /\ watchers > 0
    /\ f \in WatchPaths
    /\ LET cleared == HandlerClears(timers, publishTimeout)
       IN IF HandlerSchedules(isPublishing)
          THEN /\ Cardinality(cleared) < MaxTimers
               /\ LET id == FreshTimerId(cleared)
                  IN /\ timers' = cleared \cup {[id |-> id, remaining |-> TimerDelay]}
                     /\ publishTimeout' = id
               /\ burstPubs' = IF eventsPending = 0 THEN 0 ELSE burstPubs
               /\ eventsPending' = Min(eventsPending + 1, MaxBurst)
          ELSE /\ timers' = cleared
               /\ publishTimeout' = 0
               /\ UNCHANGED <<eventsPending, burstPubs>>
    /\ arrivedDuringPublish' = isPublishing
    /\ sinceChange' = 0
    /\ unpublished' = unpublished \cup {f}
    /\ pubs' = MarkStale(pubs, f)
    /\ UNCHANGED <<repoVars, orchVars, watcherCfg, watchers,
                   isWatching, lastCall, isPublishing, lastSettle, publishError>>

\* time passes: every pending timer gets closer to firing
AdvanceTime ==
    /\ \/ sinceChange < DebounceDelay
       \/ \E t \in timers : t.remaining > 0
    /\ timers' = {[t EXCEPT !.remaining = Max(0, @ - Tick)] : t \in timers}
    /\ sinceChange' = Min(DebounceDelay, sinceChange + Tick)
    /\ UNCHANGED <<repoVars, orchVars, watcherCfg, watchers,
                   isWatching, lastCall, publishTimeout, isPublishing, pubs, eventsPending,
                   burstPubs, arrivedDuringPublish, lastSettle, publishError, unpublished>>

\* the timer callback's second isPublishing check (lines 78-85)
CallbackReturnsEarly(publishing) == publishing

\* variant: the callback forgets to raise the flag
FlagStaysDown == FALSE

\* the flag the callback raises before it calls publishFiles() (line 87)
FlagWhilePublishing == TRUE

\* first suspension point of publishFiles() (lines 138-150)
FirstPublishStep == IF prePublishHook THEN "hook" ELSE "readSpec"

NewPub(waited, served) ==
    [pc |-> FirstPublishStep, hooked |-> FALSE, read |-> {}, missed |-> {}, waited |-> waited,
     served |-> served, byWatcher |-> TRUE, after |-> lastSettle]

\* the setTimeout callback: part_008 lines 76-105
TimerFire ==
    \E t \in timers :
        /\ t.remaining = 0
        /\ IF CallbackReturnsEarly(isPublishing)
           THEN /\ timers' = HandlerClears(timers \ {t}, publishTimeout)
                /\ publishTimeout' = 0
                /\ UNCHANGED <<isPublishing, pubs, eventsPending, burstPubs, lastSettle, publishError>>
           ELSE /\ timers' = timers \ {t}
                /\ eventsPending' = 0
                /\ burstPubs' = Min(burstPubs + 1, MaxBurst)
                /\ IF openApiFile
                   THEN /\ Len(pubs) < MaxInFlight
                        /\ pubs' = Append(pubs, NewPub(sinceChange, eventsPending))
                        /\ isPublishing' = FlagWhilePublishing
                        /\ UNCHANGED <<lastSettle, publishError>>
                   ELSE \* publishFiles() rejects before its first await (line 135)
                        /\ pubs' = pubs
                        /\ isPublishing' = FALSE
                        /\ lastSettle' = "rejected"
                        /\ publishError' = PublishErrorAt("start", "none")
                /\ UNCHANGED publishTimeout
        /\ UNCHANGED <<repoVars, orchVars, watcherCfg, watchers,
                       isWatching, lastCall, sinceChange, arrivedDuringPublish, unpublished>>

\* variant: the callback's finally does not lower the flag
SettleKeepsFlag(i) ==
    /\ pubs' = RemoveAt(pubs, i)
    /\ UNCHANGED isPublishing

\* a publishFiles() call settles: the finally / catch of the callback (lines 96-104)
Settle(i) ==
    /\ pubs' = RemoveAt(pubs, i)
    /\ isPublishing' = IF pubs[i].byWatcher THEN FALSE ELSE isPublishing

\* variant: a rejected hook does not stop the publish
HookFailureIgnored(ok) == TRUE

\* a rejection of the awaited hook leaves publishFiles() (lines 139-143, 187)
HookLetsPublishGoOn(ok) == ok

\* await executePrePublishSpec(...) (lines 138-144)
PrePublishDone(i, ok) ==
    /\ pubs[i].pc = "hook"
    /\ IF HookLetsPublishGoOn(ok)
       THEN /\ pubs' = [pubs EXCEPT ![i].pc = "readSpec", ![i].hooked = ok]
            /\ UNCHANGED <<isPublishing, lastSettle, publishError>>
       ELSE /\ Settle(i)
            /\ lastSettle' = "rejected"
            /\ publishError' = PublishErrorAt(pubs[i].pc, "none")
    /\ UNCHANGED unpublished

\* await fs.readFile(openApiFile) (lines 149-153)
ReadSpecDone(i, ok) ==
    /\ pubs[i].pc = "readSpec"
    /\ IF ok
       THEN /\ pubs' = [pubs EXCEPT ![i].pc = IF stainlessConfigFile THEN "readConfig"
                                                                      ELSE "upload",
                                    ![i].read = @ \cup {"spec"}]
            /\ UNCHANGED <<isPublishing, lastSettle, publishError>>
       ELSE /\ Settle(i)
            /\ lastSettle' = "rejected"
            /\ publishError' = PublishErrorAt(pubs[i].pc, "none")
    /\ UNCHANGED unpublished

\* await fs.readFile(stainlessConfigFile) (lines 155-161)
ReadConfigDone(i, ok) ==
    /\ pubs[i].pc = "readConfig"
    /\ IF ok
       THEN /\ pubs' = [pubs EXCEPT ![i].pc = "upload", ![i].read = @ \cup {"config"}]
            /\ UNCHANGED <<isPublishing, lastSettle, publishError>>
       ELSE /\ Settle(i)
            /\ lastSettle' = "rejected"
            /\ publishError' = PublishErrorAt(pubs[i].pc, "none")
    /\ UNCHANGED unpublished

\* await stainlessApi.publish(...) (lines 163-185)
UploadDone(i, ok) ==
    /\ pubs[i].pc = "upload"
    /\ Settle(i)
    /\ lastSettle' = IF ok THEN "resolved" ELSE "rejected"
    /\ \E kind \in PublishFailures :
          publishError' = IF ok THEN NoPublishError ELSE PublishErrorAt("upload", kind)
    /\ unpublished' = IF ok THEN (unpublished \ pubs[i].read) \cup pubs[i].missed
                            ELSE unpublished

PublishStep ==
    /\ exitCode = 0 /\ procEnd = "running"    \* the process is alive
    /\ \E i \in 1..Len(pubs) : \E ok \in BOOLEAN :
          \/ PrePublishDone(i, ok)
          \/ ReadSpecDone(i, ok)
          \/ ReadConfigDone(i, ok)
          \/ UploadDone(i, ok)
    /\ UNCHANGED <<repoVars, orchVars, watcherCfg, watchers,
                   isWatching, lastCall, publishTimeout, timers, sinceChange, eventsPending,
                   burstPubs, arrivedDuringPublish>>

FileChange == \E f \in Files : Change(f)

WatcherNext ==
    \/ Start
    \/ Stop
    \/ FileChange
    \/ AdvanceTime
    \/ TimerFire
    \/ PublishStep

(***************************************************************************)
(* RepoManager                                                             *)
(***************************************************************************)
\* ---- repository URLs: sequences of tokens, a token being a separator ----
\* ---- character or a maximal run of the characters [\w-]              ----
SshUrl == <<"git", "@", "github", ".", "com", ":", "org", "/", "repo", ".", "git">>

HttpsUrl == <<"https", ":", "/", "/", "github", ".", "com", "/", "org", "/", "repo", ".", "git">>

SshPortUrl == <<"ssh", ":", "/", "/", "git", "@", "github", ".", "com", ":", "443", "/",
                "org", "/", "repo", ".", "git">>

OtherUrl == <<"https", ":", "/", "/", "github", ".", "com", "/", "other", "/", "repo", ".", "git">>

\* a repository whose name contains a dot
DottedUrl == <<"https", ":", "/", "/", "github", ".", "com", "/", "org", "/",
               "my", ".", "repo", ".", "git">>

\* remotes?.[0]?.refs?.fetch is undefined
NoUrl == <<>>

Urls == {SshUrl, HttpsUrl, SshPortUrl, OtherUrl, DottedUrl}

\* [\w-]+ matches a token that is no separator
IsWord(tok) == tok \notin {"/", ":", ".", "@"}

\* position of the first token tok in s, 0 if there is none
FirstIndex(s, tok) ==
    IF \E i \in 1..Len(s) : s[i] = tok
    THEN CHOOSE i \in 1..Len(s) : s[i] = tok /\ \A j \in 1..(i - 1) : s[j] # tok
    ELSE 0

StartsWith(s, prefix) ==
    Len(s) >= Len(prefix) /\ SubSeq(s, 1, Len(prefix)) = prefix

\* isValidDomain (part_018 lines 2-5): labels separated by dots
IsValidDomain(d) ==
    /\ Len(d) >= 1 /\ Len(d) % 2 = 1
    /\ \A i \in 1..Len(d) : IF i % 2 = 1 THEN IsWord(d[i]) ELSE d[i] = "."

\* isValidRepoPath (part_018 lines 8-11): owner "/" name ".git", the name made
\* of word characters and dots
IsValidRepoPath(path) ==
    /\ Len(path) >= 5
    /\ IsWord(path[1]) /\ path[2] = "/"
    /\ \A i \in 3..Len(path) : path[i] = "." \/ IsWord(path[i])
    /\ path[Len(path) - 1] = "." /\ path[Len(path)] = "git"

\* new URL(url): hostname and pathname.slice(1) of scheme://[user@]host[:port]/path
UrlHostname(url) ==
    LET rest == SubSeq(url, 5, Len(url))
        slash == FirstIndex(rest, "/")
        authority == IF slash = 0 THEN rest ELSE SubSeq(rest, 1, slash - 1)
        at == FirstIndex(authority, "@")
        hostport == SubSeq(authority, at + 1, Len(authority))
        colon == FirstIndex(hostport, ":")
    IN IF colon = 0 THEN hostport ELSE SubSeq(hostport, 1, colon - 1)

UrlPath(url) ==
    LET rest == SubSeq(url, 5, Len(url))
        slash == FirstIndex(rest, "/")
    IN IF slash = 0 THEN <<>> ELSE SubSeq(rest, slash + 1, Len(rest))

\* isValidGitUrl (part_018 lines 13-45)
IsValidGitUrl(url) ==
    IF StartsWith(url, <<"ssh", ":", "/", "/">>)
    THEN IsValidDomain(UrlHostname(url)) /\ IsValidRepoPath(UrlPath(url))
    ELSE IF StartsWith(url, <<"git", "@">>)
    THEN LET colon == FirstIndex(url, ":")    \* const [prefix, repoPath] = url.split(":")
             prefix == IF colon = 0 THEN url ELSE SubSeq(url, 1, colon - 1)
             after == IF colon = 0 THEN <<>> ELSE SubSeq(url, colon + 1, Len(url))
             next == FirstIndex(after, ":")
             repoPath == IF next = 0 THEN after ELSE SubSeq(after, 1, next - 1)
         IN IsValidDomain(SubSeq(prefix, 3, Len(prefix))) /\ IsValidRepoPath(repoPath)
    ELSE IF \/ StartsWith(url, <<"https", ":", "/", "/">>)
            \/ StartsWith(url, <<"http", ":", "/", "/">>)
    THEN IsValidDomain(UrlHostname(url)) /\ IsValidRepoPath(UrlPath(url))
    ELSE FALSE

\* the regular expression (?:^|\/|:)([\w-]+\/[\w-]+)(?:\.git)?$ matches at token i
MatchAt(url, i) ==
    /\ i = 1 \/ url[i - 1] \in {"/", ":"}
    /\ i + 2 <= Len(url)
    /\ IsWord(url[i]) /\ url[i + 1] = "/" /\ IsWord(url[i + 2])
    /\ \/ i + 2 = Len(url)
       \/ i + 4 = Len(url) /\ url[i + 3] = "." /\ url[i + 4] = "git"

\* variant: the path keeps the host, so the URL forms never compare equal
GetRepoPathWithHost(url) == url

\* getRepoPath (lines 99-102): capture group 1 of the leftmost match, or ""
GetRepoPath(url) ==
    LET ms == {i \in 1..Len(url) : MatchAt(url, i)}
    IN IF ms = {} THEN <<>>
       ELSE LET i == CHOOSE m \in ms : \A n \in ms : m <= n
            IN <<url[i], "/", url[i + 2]>>

\* isSameRepository (lines 98-107)
IsSameRepository(url1, url2) ==
    LET repo1 == GetRepoPath(url1)
        repo2 == GetRepoPath(url2)
    IN repo1 # <<>> /\ repo2 # <<>> /\ repo1 = repo2

\* variant: the identity check accepts every directory
originAlwaysMatches == TRUE

\* !(!originUrl || !this.isSameRepository(originUrl, this.options.sdkRepo)) (line 185)
originMatches == originUrl # NoUrl /\ IsSameRepository(originUrl, sdkRepo)

NoError == [msg |-> "none", cause |-> "none", urls |-> <<>>]

RepoInit ==
    /\ sdkName \in BOOLEAN
    /\ dirIsRepo \in BOOLEAN
    /\ sdkRepo \in Urls
    /\ originUrl \in (IF dirIsRepo THEN Urls \cup {NoUrl} ELSE {NoUrl})
    /\ remoteBranch \in BOOLEAN
    \* a directory that is no repository has no changes, stash or branch
    /\ treeDirty \in (IF dirIsRepo THEN BOOLEAN ELSE {FALSE})
    /\ stash \in (IF dirIsRepo THEN {<<>>, <<"user">>} ELSE {<<>>})
    /\ headOnTarget \in (IF dirIsRepo THEN BOOLEAN ELSE {FALSE})
    \* local branch, tracking ref and remote start on the same commit
    /\ localBase = 0
    /\ localOwn = FALSE
    /\ originRef = 0
    /\ remoteTip = 0
    /\ trackedBranch \in (IF dirIsRepo /\ remoteBranch THEN BOOLEAN ELSE {FALSE})
    /\ waitAttempts = 0
    /\ lastAttempt = "none"
    /\ checkLocal = <<0, FALSE>>
    /\ checkResult = FALSE
    /\ initState = "none"
    /\ rpc = "idle"
    /\ op = "none"
    /\ hasLocalChanges = FALSE
    /\ outcome = "none"
    /\ exitCode = 0
    /\ thrown = NoError
    /\ cmds = <<>>

\* one issued command: hit tells whether a stash push saved an entry, or a
\* stash list showed one
CmdHit(c, ok, hit) == [c |-> c, ok |-> ok, hit |-> hit]

Cmd(c, ok) == CmdHit(c, ok, FALSE)

\* this.options.branch
Branch == "options.branch"

\* a lifecycle hook run with its context { sdkPath, branch, sdkName } (lines 237-241)
HookCmd(c, ok) == [c |-> c, ok |-> ok, hit |-> FALSE, branch |-> Branch]

Running == exitCode = 0 /\ procEnd = "running"

\* the engine moves to its next await
Goto(pc, entries) ==
    /\ rpc' = pc
    /\ cmds' = cmds \o entries
    /\ UNCHANGED <<initState, op, outcome, exitCode, thrown>>

\* the StainlessError an operation rejects with when it fails at await pc:
\* the message of the innermost StainlessError and the command whose error
\* it carries as cause
ErrorAt(pc, entries) ==
    LET failed == entries # <<>> /\ ~entries[Len(entries)].ok
        c == IF failed THEN entries[Len(entries)].c ELSE "none"
    IN CASE pc = "upd_remotes" /\ ~failed ->   \* lines 186-189
               [msg |-> "Directory contains a different repository",
                cause |-> "none", urls |-> <<originUrl, sdkRepo>>]
         [] pc = "failpull_pop" ->              \* line 399
               [msg |-> "Failed to restore local changes after pull failed",
                cause |-> "stash pop", urls |-> <<>>]
         [] pc = "failsw_pop" ->                \* line 334
               [msg |-> "Failed to restore local changes after operation failed",
                cause |-> "stash pop", urls |-> <<>>]
         [] pc = "restore_list" /\ ~failed ->   \* line 316
               [msg |-> "Failed to reapply local changes and could not find stash reference",
                cause |-> "stash pop", urls |-> <<>>]
         [] pc \in {"hnc_fetch", "hnc_local", "hnc_remote"} ->   \* line 152
               [msg |-> "Failed to check for new changes", cause |-> c, urls |-> <<>>]
         [] pc \in {"pull_oldhash", "pull_newhash", "upd_hash"} ->   \* line 117
               [msg |-> "Failed to get SDK commit hash", cause |-> c, urls |-> <<>>]
         [] pc = "pull_hook" ->                 \* LifecycleManager.ts line 106
               [msg |-> "Failed to execute postUpdate command", cause |-> c, urls |-> <<>>]
         [] pc \in {"cl_setup", "cl_fetch", "cl_branches", "cl_fetch_branch",
                    "cl_checkout", "cl_hash", "cl_hook"} ->   \* line 231
               [msg |-> "Failed to clone SDK repository", cause |-> c, urls |-> <<>>]
         [] pc \in {"pull_status", "pull_push", "pull_pull"}
               \/ (pc = "restore_list" /\ op = "pull") ->   \* line 372
               [msg |-> "Failed to pull changes", cause |-> c, urls |-> <<>>]
         [] OTHER ->                            \* line 201
               [msg |-> "Failed to update existing repository", cause |-> c, urls |-> <<>>]

\* the operation rejects; inside initializeRepo() the rejection ends the start-up
Throw(entries) ==
    /\ rpc' = "idle"
    /\ outcome' = "threw"
    /\ thrown' = ErrorAt(rpc, entries)
    /\ cmds' = cmds \o entries
    /\ initState' = IF initState = "running" THEN "failed" ELSE initState
    /\ UNCHANGED <<op, exitCode>>

\* process.exit(1)
Exit(entries) ==
    /\ rpc' = "exited"
    /\ outcome' = "exited"
    /\ exitCode' = 1
    /\ cmds' = cmds \o entries
    /\ UNCHANGED <<initState, op, thrown>>

\* ---- effects of the git stash commands on the working copy ----
\* git stash push -u: saves an entry only when there is something to save
StashPush(ok) ==
    IF ok /\ treeDirty
    THEN Len(stash) < MaxStash /\ stash' = <<"engine">> \o stash /\ treeDirty' = FALSE
    ELSE UNCHANGED <<stash, treeDirty>>

\* git stash pop: needs an entry; a failed pop keeps the entry
StashPop(ok) ==
    IF ok
    THEN stash # <<>> /\ stash' = Tail(stash) /\ treeDirty' = TRUE
    ELSE UNCHANGED stash /\ treeDirty' \in {treeDirty} \cup (IF stash # <<>> THEN {TRUE} ELSE {})

\* variant: apply behaves like pop and removes the entry
StashApplyDrops(ok) ==
    /\ stash' = IF ok /\ stash # <<>> THEN Tail(stash) ELSE stash
    /\ treeDirty' = IF ok THEN TRUE ELSE treeDirty

\* git stash apply stash@{0}: never removes the entry
StashApply(ok) ==
    /\ UNCHANGED stash
    /\ treeDirty' = IF ok THEN TRUE ELSE treeDirty

\* ---- effects of fetch, pull and checkout on the commits ----
\* log.latest.hash of the local branch, and of a remote commit
LocalHash == <<localBase, localOwn>>

RemoteHash(n) == <<n, FALSE>>

\* git fetch moves origin/<branch> to the remote tip
FetchRefs(ok) ==
    /\ originRef' = IF ok /\ remoteBranch THEN remoteTip ELSE originRef
    /\ trackedBranch' = IF ok THEN remoteBranch ELSE trackedBranch
    /\ UNCHANGED <<localBase, localOwn, remoteTip>>

\* git pull origin <branch>: fetch, then merge the remote tip into the local branch
PullRefs(ok) ==
    /\ originRef' = IF ok THEN remoteTip ELSE originRef
    /\ localBase' = IF ok THEN remoteTip ELSE localBase
    /\ trackedBranch' = IF ok THEN remoteBranch ELSE trackedBranch
    /\ UNCHANGED <<localOwn, remoteTip>>

\* git checkout -b <branch> origin/<branch>
CheckoutRefs(ok) ==
    /\ localBase' = IF ok THEN originRef ELSE localBase
    /\ localOwn' = IF ok THEN FALSE ELSE localOwn
    /\ UNCHANGED <<originRef, remoteTip, trackedBranch>>

\* ---- initializeRepo(): RepoManager.ts lines 159-177 ----
\* the call runs up to the first await of updateExistingRepo / cloneFreshRepo
CallInitializeRepo ==
    /\ initState' = "running"
    /\ rpc' = IF dirIsRepo THEN "upd_remotes" ELSE "cl_setup"
    /\ UNCHANGED <<op, hasLocalChanges, outcome, exitCode, thrown, cmds>>

\* initializeRepo() called by the owner of the RepoManager
InitializeRepo ==
    /\ Running /\ phase = "library" /\ initState = "none" /\ rpc = "idle"
    /\ CallInitializeRepo
    /\ UNCHANGED <<watcherVars, orchVars, repoCfg, repoRefs, repoCheck, repoWait, repoEnv>>

\* ---- updateExistingRepo(): lines 179-203 ----
\* getRemotes and the identity check (lines 184-191)
UpdRemotes ==
    /\ Running /\ rpc = "upd_remotes"
    /\ \E ok \in BOOLEAN :
          IF ~ok THEN Throw(<<Cmd("getRemotes", FALSE)>>)
          ELSE IF originMatches THEN Goto("upd_fetch", <<Cmd("getRemotes", TRUE)>>)
          ELSE Throw(<<Cmd("getRemotes", TRUE)>>)
    /\ UNCHANGED <<watcherVars, orchVars, repoCfg, repoRefs, repoCheck, repoWait, repoEnv, hasLocalChanges>>

\* fetch, then handleBranchSwitch() starts with rev-parse (lines 194-196, 246)
UpdFetch ==
    /\ Running /\ rpc = "upd_fetch"
    /\ \E ok \in BOOLEAN :
          /\ FetchRefs(ok)
          /\ IF ok
             THEN /\ rpc' = "sw_revparse"
                  /\ op' = "switch"
                  /\ outcome' = "none"
                  /\ cmds' = <<>>
                  /\ UNCHANGED <<initState, exitCode, thrown>>
             ELSE Throw(<<Cmd("fetch", FALSE)>>)
    /\ UNCHANGED <<watcherVars, orchVars, repoCfg, repoCheck, repoWait, repoEnv, hasLocalChanges>>

\* branches.all.includes(origin/<branch>) was false: the waiter is called
\* (lines 217-222 and 266-271)
EnterWait ==
    /\ waitAttempts' = 0
    /\ lastAttempt' = "none"

\* variant: the checkout is tried whether or not the ref was listed
NeverWaits(branchExists) == FALSE

\* if (!branchExists) await this.waitForRemoteBranch(...) (lines 219-222, 268-271)
NeedsWait(branchExists) == ~branchExists

\* ---- handleBranchSwitch(): lines 245-287 ----
\* handleBranchSwitch returns: pullChanges() is called next (line 197)
SwitchReturns(entries) ==
    /\ rpc' = "sw_returned"
    /\ outcome' = "returned"
    /\ cmds' = cmds \o entries
    /\ UNCHANGED <<initState, op, exitCode, thrown>>

SwRevparse ==
    /\ Running /\ rpc = "sw_revparse"
    /\ \E ok \in BOOLEAN :
          IF ~ok THEN Throw(<<Cmd("rev-parse", FALSE)>>)
          ELSE IF headOnTarget THEN SwitchReturns(<<Cmd("rev-parse", TRUE)>>)
          ELSE Goto("sw_status", <<Cmd("rev-parse", TRUE)>>)
    /\ UNCHANGED <<watcherVars, orchVars, repoCfg, repoRefs, repoCheck, repoWait, repoEnv, hasLocalChanges>>

SwStatus ==
    /\ Running /\ rpc = "sw_status"
    /\ \E ok \in BOOLEAN :
          IF ok
          THEN /\ hasLocalChanges' = treeDirty
               /\ Goto(IF treeDirty THEN "sw_push" ELSE "sw_fetch", <<Cmd("status", TRUE)>>)
          ELSE /\ Throw(<<Cmd("status", FALSE)>>)
               /\ UNCHANGED hasLocalChanges
    /\ UNCHANGED <<watcherVars, orchVars, repoCfg, repoRefs, repoCheck, repoWait, repoEnv>>

\* the stash push sits before the try block (line 259)
SwPush ==
    /\ Running /\ rpc = "sw_push"
    /\ \E ok \in BOOLEAN :
          /\ StashPush(ok)
          /\ IF ok THEN Goto("sw_fetch", <<CmdHit("stash push", TRUE, treeDirty)>>)
                   ELSE Throw(<<Cmd("stash push", FALSE)>>)
    /\ UNCHANGED <<watcherVars, orchVars, repoCfg, repoRefs, repoCheck, repoWait, headOnTarget, remoteBranch, hasLocalChanges>>

\* variant: the catch forgets the hasLocalChanges test
RestoresAfterAnyGitFailure(localChanges, isStainlessError) == ~isStainlessError

\* catch of handleBranchSwitch and of pullChanges (lines 282 and 365)
RestoresAfterFailure(localChanges, isStainlessError) == localChanges /\ ~isStainlessError

\* a git command inside the try block of handleBranchSwitch rejected
SwitchFails(entries) ==
    IF RestoresAfterFailure(hasLocalChanges, FALSE)
    THEN Goto("failsw_pop", entries)
    ELSE Throw(entries)

SwFetch ==
    /\ Running /\ rpc = "sw_fetch"
    /\ \E ok \in BOOLEAN :
          /\ FetchRefs(ok)
          /\ IF ok THEN Goto("sw_branches", <<Cmd("fetch", TRUE)>>)
                ELSE SwitchFails(<<Cmd("fetch", FALSE)>>)
    /\ UNCHANGED <<watcherVars, orchVars, repoCfg, repoCheck, repoWait, repoEnv, hasLocalChanges>>

SwBranches ==
    /\ Running /\ rpc = "sw_branches"
    /\ \E ok \in BOOLEAN :
          IF ~ok THEN SwitchFails(<<Cmd("branch -r", FALSE)>>) /\ UNCHANGED repoWait
          ELSE IF NeedsWait(trackedBranch)
          THEN Goto("wait_fetch", <<CmdHit("branch -r", TRUE, trackedBranch)>>) /\ EnterWait
          ELSE Goto("sw_checkout", <<CmdHit("branch -r", TRUE, trackedBranch)>>)
                  /\ UNCHANGED repoWait
    /\ UNCHANGED <<watcherVars, orchVars, repoCfg, repoRefs, repoCheck, repoEnv, hasLocalChanges>>

SwCheckout ==
    /\ Running /\ rpc = "sw_checkout"
    /\ \E ok \in BOOLEAN :
          IF ok
          THEN /\ headOnTarget' = TRUE
               /\ IF hasLocalChanges
                  THEN Goto("restore_pop", <<Cmd("checkout", TRUE)>>)
                  ELSE SwitchReturns(<<Cmd("checkout", TRUE)>>)
          ELSE /\ UNCHANGED headOnTarget
               /\ SwitchFails(<<Cmd("checkout", FALSE)>>)
    /\ UNCHANGED <<watcherVars, orchVars, repoCfg, repoRefs, repoCheck, repoWait, treeDirty, stash, remoteBranch, hasLocalChanges>>

\* handleFailedBranchSwitch(): lines 321-336
FailSwPop ==
    /\ Running /\ rpc = "failsw_pop"
    /\ \E ok \in BOOLEAN :
          /\ StashPop(ok)
          /\ IF ok THEN Exit(<<Cmd("stash pop", TRUE), Cmd("notice switch-manually", TRUE)>>)
                   ELSE Throw(<<Cmd("stash pop", FALSE)>>)
    /\ UNCHANGED <<watcherVars, orchVars, repoCfg, repoRefs, repoCheck, repoWait, headOnTarget, remoteBranch, hasLocalChanges>>

\* ---- waitForRemoteBranch(): lines 124-138 ----
\* one fetch-and-list attempt is over without the ref having been seen
Attempted(result) ==
    /\ waitAttempts' = Min(waitAttempts + 1, MaxWaits)
    /\ lastAttempt' = result

\* variant: an error of an attempt leaves the waiter
WaitRethrows(c) == Throw(<<Cmd(c, FALSE)>>)

\* catch { } (lines 132-134): the error is ignored, the delay follows
WaitSwallows(c) == Goto("wait_sleep", <<>>)

WaitFetch ==
    /\ Running /\ rpc = "wait_fetch"
    /\ \E ok \in BOOLEAN :
          /\ FetchRefs(ok)
          /\ IF ok THEN /\ Goto("wait_list", <<>>)
                        /\ UNCHANGED repoWait
                   ELSE /\ WaitSwallows("fetch")
                        /\ Attempted("fetch failed")
    /\ UNCHANGED <<watcherVars, orchVars, repoCfg, repoCheck, repoEnv, hasLocalChanges>>

WaitList ==
    /\ Running /\ rpc = "wait_list"
    /\ \E ok \in BOOLEAN :
          IF ~ok THEN /\ WaitSwallows("branch -r")
                      /\ Attempted("list failed")
          ELSE IF trackedBranch
          THEN /\ Goto(IF op = "clone" THEN "cl_fetch_branch" ELSE "sw_checkout",
                       <<CmdHit("branch -r", TRUE, TRUE)>>)
               /\ waitAttempts' = 0
               /\ lastAttempt' = "present"
          ELSE /\ Goto("wait_sleep", <<>>)
               /\ Attempted("absent")
    /\ UNCHANGED <<watcherVars, orchVars, repoCfg, repoRefs, repoCheck, repoEnv, hasLocalChanges>>

\* variant: the waiter gives up after its first attempt
RetryOnce(attempts) == attempts < 1

\* while (true) (line 125): there is no retry bound
RetryAllowed(attempts) == TRUE

\* await new Promise((resolve) => setTimeout(resolve, delayMs)) (line 136)
WaitSleep ==
    /\ Running /\ rpc = "wait_sleep"
    /\ IF RetryAllowed(waitAttempts) THEN Goto("wait_fetch", <<>>) ELSE Throw(<<>>)
    /\ UNCHANGED <<watcherVars, orchVars, repoCfg, repoRefs, repoCheck, repoWait, repoEnv, hasLocalChanges>>

\* ---- restoreStashedChanges(): lines 289-319 ----
\* restoreStashedChanges let a plain git error escape (stash list rejected)
RestoreFails(entries) ==
    IF RestoresAfterFailure(hasLocalChanges, FALSE)
    THEN Goto(IF op = "pull" THEN "failpull_pop" ELSE "failsw_pop", entries)
    ELSE Throw(entries)

RestorePop ==
    /\ Running /\ rpc = "restore_pop"
    /\ \E ok \in BOOLEAN :
          /\ StashPop(ok)
          /\ IF ~ok THEN Goto("restore_list", <<Cmd("stash pop", FALSE)>>)
             ELSE IF op = "pull" THEN Goto("pull_hook", <<Cmd("stash pop", TRUE)>>)
             ELSE SwitchReturns(<<Cmd("stash pop", TRUE)>>)
    /\ UNCHANGED <<watcherVars, orchVars, repoCfg, repoRefs, repoCheck, repoWait, headOnTarget, remoteBranch, hasLocalChanges>>

RestoreList ==
    /\ Running /\ rpc = "restore_list"
    /\ \E ok \in BOOLEAN :
          IF ~ok THEN RestoreFails(<<Cmd("stash list", FALSE)>>)
          ELSE IF stash # <<>> THEN Goto("restore_apply", <<CmdHit("stash list", TRUE, TRUE)>>)
          ELSE \* no stash@{0} in the listing: StainlessError (line 316)
               Throw(<<Cmd("stash list", TRUE)>>)
    /\ UNCHANGED <<watcherVars, orchVars, repoCfg, repoRefs, repoCheck, repoWait, repoEnv, hasLocalChanges>>

RestoreApply ==
    /\ Running /\ rpc = "restore_apply"
    /\ \E ok \in BOOLEAN :
          /\ StashApply(ok)
          /\ Exit(<<Cmd("stash apply", ok),
                    Cmd(IF ok THEN "notice resolve-then-drop" ELSE "notice pop-manually", TRUE)>>)
    /\ UNCHANGED <<watcherVars, orchVars, repoCfg, repoRefs, repoCheck, repoWait, headOnTarget, remoteBranch, hasLocalChanges>>

\* ---- hasNewChanges(): lines 143-154 ----
\* called by the poll loop, or directly through StainlessTools.hasNewChanges()
CallHasNewChanges ==
    /\ rpc' = "hnc_fetch"
    /\ op' = "check"
    /\ outcome' = "none"
    /\ cmds' = <<>>
    /\ thrown' = NoError
    /\ UNCHANGED <<initState, hasLocalChanges, exitCode>>

HasNewChanges ==
    /\ Running /\ phase = "library" /\ rpc = "idle" /\ initState = "ready"
    /\ CallHasNewChanges
    /\ UNCHANGED <<watcherVars, orchVars, repoCfg, repoRefs, repoCheck, repoWait, repoEnv>>

\* await this.sdkGit.fetch() (line 145)
HncFetch ==
    /\ Running /\ rpc = "hnc_fetch"
    /\ \E ok \in BOOLEAN :
          /\ FetchRefs(ok)
          /\ IF ok THEN Goto("hnc_local", <<Cmd("fetch", TRUE)>>)
                   ELSE Throw(<<Cmd("fetch", FALSE)>>)
    /\ UNCHANGED <<watcherVars, orchVars, repoCfg, repoCheck, repoWait, repoEnv, hasLocalChanges>>

\* const localHash = await this.getCurrentSdkCommitHash() (line 146)
HncLocal ==
    /\ Running /\ rpc = "hnc_local"
    /\ \E ok \in BOOLEAN :
          IF ok THEN /\ checkLocal' = LocalHash
                     /\ Goto("hnc_remote", <<Cmd("log", TRUE)>>)
                ELSE /\ UNCHANGED checkLocal
                     /\ Throw(<<Cmd("log", FALSE)>>)
    /\ UNCHANGED <<watcherVars, orchVars, repoCfg, repoRefs, checkResult, repoWait, repoEnv, hasLocalChanges>>

\* variant: the comparison is inverted
HashesCompareEqual(localHash, remoteHash) == localHash = remoteHash

\* return localHash !== remoteHash (line 150)
HashesDiffer(localHash, remoteHash) == localHash # remoteHash

\* hasNewChanges returns
CheckReturns(entries) ==
    /\ rpc' = "idle"
    /\ outcome' = "returned"
    /\ cmds' = cmds \o entries
    /\ UNCHANGED <<initState, op, exitCode, thrown>>

\* const remoteLog = await this.sdkGit.log([origin/<branch>]) (lines 147-150)
HncRemote ==
    /\ Running /\ rpc = "hnc_remote"
    /\ \E ok \in BOOLEAN :
          IF ok THEN /\ checkResult' = HashesDiffer(checkLocal, RemoteHash(originRef))
                     /\ CheckReturns(<<Cmd("log origin", TRUE)>>)
                ELSE /\ UNCHANGED checkResult
                     /\ Throw(<<Cmd("log origin", FALSE)>>)
    /\ UNCHANGED <<watcherVars, orchVars, repoCfg, repoRefs, checkLocal, repoWait, repoEnv, hasLocalChanges>>

\* ---- pullChanges(): lines 341-374 ----
\* called by updateExistingRepo after the branch switch, or by the poll loop
CallPullChanges ==
    /\ rpc' = "pull_status"
    /\ op' = "pull"
    /\ outcome' = "none"
    /\ cmds' = <<>>
    /\ hasLocalChanges' = FALSE
    /\ thrown' = NoError
    /\ UNCHANGED <<initState, exitCode>>

PullChanges ==
    /\ Running
    /\ \/ rpc = "sw_returned"
       \/ rpc = "idle" /\ initState = "ready" /\ phase = "library"
    /\ CallPullChanges
    /\ UNCHANGED <<watcherVars, orchVars, repoCfg, repoRefs, repoCheck, repoWait, repoEnv>>

PullStatus ==
    /\ Running /\ rpc = "pull_status"
    /\ \E ok \in BOOLEAN :
          IF ok
          THEN /\ hasLocalChanges' = treeDirty
               /\ Goto("pull_oldhash", <<Cmd("status", TRUE)>>)
          ELSE /\ Throw(<<Cmd("status", FALSE)>>)
               /\ UNCHANGED hasLocalChanges
    /\ UNCHANGED <<watcherVars, orchVars, repoCfg, repoRefs, repoCheck, repoWait, repoEnv>>

PullOldHash ==
    /\ Running /\ rpc = "pull_oldhash"
    /\ \E ok \in BOOLEAN :
          IF ok THEN Goto(IF hasLocalChanges THEN "pull_push" ELSE "pull_pull",
                          <<Cmd("log", TRUE)>>)
                ELSE Throw(<<Cmd("log", FALSE)>>)
    /\ UNCHANGED <<watcherVars, orchVars, repoCfg, repoRefs, repoCheck, repoWait, repoEnv, hasLocalChanges>>

PullPush ==
    /\ Running /\ rpc = "pull_push"
    /\ \E ok \in BOOLEAN :
          /\ StashPush(ok)
          /\ IF ok THEN Goto("pull_pull", <<CmdHit("stash push", TRUE, treeDirty)>>)
                   ELSE Throw(<<Cmd("stash push", FALSE)>>)
    /\ UNCHANGED <<watcherVars, orchVars, repoCfg, repoRefs, repoCheck, repoWait, headOnTarget, remoteBranch, hasLocalChanges>>

\* variant: the catch tries to restore a stash after every failure
PullFailsAlwaysRestores(entries, isStainlessError) == Goto("failpull_pop", entries)

\* the catch around pull / log / restore / hook (lines 364-369)
PullFails(entries, isStainlessError) ==
    IF RestoresAfterFailure(hasLocalChanges, isStainlessError)
    THEN Goto("failpull_pop", entries)
    ELSE Throw(entries)

PullPull ==
    /\ Running /\ rpc = "pull_pull"
    /\ \E ok \in BOOLEAN :
          /\ PullRefs(ok)
          /\ IF ok THEN Goto("pull_newhash", <<Cmd("pull", TRUE)>>)
                ELSE PullFails(<<Cmd("pull", FALSE)>>, FALSE)
    /\ UNCHANGED <<watcherVars, orchVars, repoCfg, repoCheck, repoWait, repoEnv, hasLocalChanges>>

\* variant: the hook runs without restoring the stash first
AfterPullSkipsRestore(localChanges) == "pull_hook"

\* what pullChanges does once pull and log succeeded (lines 359-363)
AfterPull(localChanges) == IF localChanges THEN "restore_pop" ELSE "pull_hook"

\* getCurrentSdkCommitHash() wraps a log failure in a StainlessError (line 117)
PullNewHash ==
    /\ Running /\ rpc = "pull_newhash"
    /\ \E ok \in BOOLEAN :
          IF ok THEN Goto(AfterPull(hasLocalChanges), <<Cmd("log", TRUE)>>)
                ELSE PullFails(<<Cmd("log", FALSE)>>, TRUE)
    /\ UNCHANGED <<watcherVars, orchVars, repoCfg, repoRefs, repoCheck, repoWait, repoEnv, hasLocalChanges>>

\* pullChanges returns; inside updateExistingRepo line 198 follows
PullReturns(entries) ==
    /\ rpc' = IF initState = "running" THEN "upd_hash" ELSE "idle"
    /\ outcome' = "returned"
    /\ cmds' = cmds \o entries
    /\ UNCHANGED <<initState, op, exitCode, thrown>>

\* executePostUpdateCommand(): lines 376-384; a hook failure is a StainlessError
PullHook ==
    /\ Running /\ rpc = "pull_hook"
    /\ IF sdkName
       THEN \E ok \in BOOLEAN :
               IF ok THEN PullReturns(<<Cmd("postUpdate", TRUE)>>)
                     ELSE PullFails(<<Cmd("postUpdate", FALSE)>>, TRUE)
       ELSE PullReturns(<<>>)
    /\ UNCHANGED <<watcherVars, orchVars, repoCfg, repoRefs, repoCheck, repoWait, repoEnv, hasLocalChanges>>

\* handleFailedPull(): lines 386-401
FailPullPop ==
    /\ Running /\ rpc = "failpull_pop"
    /\ \E ok \in BOOLEAN :
          /\ StashPop(ok)
          /\ IF ok THEN Exit(<<Cmd("stash pop", TRUE), Cmd("notice update-manually", TRUE)>>)
                   ELSE Throw(<<Cmd("stash pop", FALSE)>>)
    /\ UNCHANGED <<watcherVars, orchVars, repoCfg, repoRefs, repoCheck, repoWait, headOnTarget, remoteBranch, hasLocalChanges>>

\* this.lastSdkCommitHash = await getCurrentSdkCommitHash() (line 198)
UpdHash ==
    /\ Running /\ rpc = "upd_hash"
    /\ \E ok \in BOOLEAN :
          /\ rpc' = "idle"
          /\ initState' = IF ok THEN "ready" ELSE "failed"
          /\ thrown' = IF ok THEN thrown ELSE ErrorAt(rpc, <<Cmd("log", FALSE)>>)
          /\ UNCHANGED <<op, outcome, exitCode, cmds>>
    /\ UNCHANGED <<watcherVars, orchVars, repoCfg, repoRefs, repoCheck, repoWait, repoEnv, hasLocalChanges>>

\* ---- cloneFreshRepo(): lines 205-233 ----
\* mkdir, cwd, init, addRemote (lines 208-211)
ClSetup ==
    /\ Running /\ rpc = "cl_setup"
    /\ \E ok \in BOOLEAN :
          IF ok
          THEN /\ rpc' = "cl_fetch"
               /\ op' = "clone"
               /\ outcome' = "none"
               /\ cmds' = <<Cmd("init", TRUE)>>
               /\ UNCHANGED <<initState, exitCode, thrown>>
          ELSE /\ Throw(<<Cmd("init", FALSE)>>)
    /\ UNCHANGED <<watcherVars, orchVars, repoCfg, repoRefs, repoCheck, repoWait, repoEnv, hasLocalChanges>>

ClFetch ==
    /\ Running /\ rpc = "cl_fetch"
    /\ \E ok \in BOOLEAN :
          /\ FetchRefs(ok)
          /\ IF ok THEN Goto("cl_branches", <<Cmd("fetch", TRUE)>>)
                ELSE Throw(<<Cmd("fetch", FALSE)>>)
    /\ UNCHANGED <<watcherVars, orchVars, repoCfg, repoCheck, repoWait, repoEnv, hasLocalChanges>>

ClBranches ==
    /\ Running /\ rpc = "cl_branches"
    /\ \E ok \in BOOLEAN :
          IF ~ok THEN Throw(<<Cmd("branch -r", FALSE)>>) /\ UNCHANGED repoWait
          ELSE IF NeedsWait(trackedBranch)
          THEN Goto("wait_fetch", <<CmdHit("branch -r", TRUE, trackedBranch)>>) /\ EnterWait
          ELSE Goto("cl_fetch_branch", <<CmdHit("branch -r", TRUE, trackedBranch)>>)
                  /\ UNCHANGED repoWait
    /\ UNCHANGED <<watcherVars, orchVars, repoCfg, repoRefs, repoCheck, repoEnv, hasLocalChanges>>

ClFetchBranch ==
    /\ Running /\ rpc = "cl_fetch_branch"
    /\ \E ok \in BOOLEAN :
          /\ FetchRefs(ok)
          /\ IF ok THEN Goto("cl_checkout", <<Cmd("fetch origin branch", TRUE)>>)
                ELSE Throw(<<Cmd("fetch origin branch", FALSE)>>)
    /\ UNCHANGED <<watcherVars, orchVars, repoCfg, repoCheck, repoWait, repoEnv, hasLocalChanges>>

ClCheckout ==
    /\ Running /\ rpc = "cl_checkout"
    /\ \E ok \in BOOLEAN :
          /\ CheckoutRefs(ok)
          /\ IF ok THEN /\ headOnTarget' = TRUE
                     /\ Goto("cl_hash", <<Cmd("checkout -b", TRUE)>>)
                ELSE /\ UNCHANGED headOnTarget
                     /\ Throw(<<Cmd("checkout -b", FALSE)>>)
    /\ UNCHANGED <<watcherVars, orchVars, repoCfg, repoCheck, repoWait, treeDirty, stash, remoteBranch, hasLocalChanges>>

ClHash ==
    /\ Running /\ rpc = "cl_hash"
    /\ \E ok \in BOOLEAN :
          IF ok THEN Goto("cl_hook", <<Cmd("log", TRUE)>>)
                ELSE Throw(<<Cmd("log", FALSE)>>)
    /\ UNCHANGED <<watcherVars, orchVars, repoCfg, repoRefs, repoCheck, repoWait, repoEnv, hasLocalChanges>>

\* cloneFreshRepo returns: initializeRepo() is done
CloneReturns(entries) ==
    /\ rpc' = "idle"
    /\ outcome' = "returned"
    /\ initState' = "ready"
    /\ cmds' = cmds \o entries
    /\ UNCHANGED <<op, exitCode, thrown>>

\* variant: the post-clone hook is skipped
PostCloneNeverRuns(name) == FALSE

\* if (this.options.sdkName) (line 236)
PostCloneRuns(name) == name

\* executePostCloneCommand(): lines 235-243
ClHook ==
    /\ Running /\ rpc = "cl_hook"
    /\ IF PostCloneRuns(sdkName)
       THEN \E ok \in BOOLEAN :
               IF ok THEN CloneReturns(<<HookCmd("postClone", TRUE)>>)
                     ELSE Throw(<<HookCmd("postClone", FALSE)>>)
       ELSE CloneReturns(<<>>)
    /\ UNCHANGED <<watcherVars, orchVars, repoCfg, repoRefs, repoCheck, repoWait, repoEnv, hasLocalChanges>>

\* ---- the environment: the user's working copy and the backend ----
UserEdits ==
    /\ Running /\ initState # "none" /\ rpc \notin {"cl_setup"}
    /\ treeDirty' = ~treeDirty
    /\ UNCHANGED <<watcherVars, orchVars, repoCfg, repoRefs, repoCheck, repoWait, stash, headOnTarget, remoteBranch, repoCtl>>

BranchCreated ==
    /\ Running /\ ~remoteBranch
    /\ remoteBranch' = TRUE
    /\ UNCHANGED <<watcherVars, orchVars, repoCfg, repoRefs, repoCheck, repoWait, treeDirty, stash, headOnTarget, repoCtl>>

\* the backend pushes a commit to the branch
RemoteCommit ==
    /\ Running /\ remoteBranch /\ remoteTip < MaxCommits
    /\ remoteTip' = remoteTip + 1
    /\ UNCHANGED <<watcherVars, orchVars, repoCfg, localBase, localOwn, originRef, trackedBranch, repoCheck, repoWait,
                   repoEnv, repoCtl>>

\* the user commits the edits of the working tree on the local branch
UserCommits ==
    /\ Running /\ initState # "none" /\ rpc \notin {"cl_setup"}
    /\ treeDirty /\ ~localOwn
    /\ treeDirty' = FALSE
    /\ localOwn' = TRUE
    /\ UNCHANGED <<watcherVars, orchVars, repoCfg, localBase, originRef, remoteTip, trackedBranch, repoCheck, repoWait,
                   stash, headOnTarget, remoteBranch, repoCtl>>

RepoNext ==
    \/ InitializeRepo
    \/ UpdRemotes
    \/ UpdFetch
    \/ SwRevparse
    \/ SwStatus
    \/ SwPush
    \/ SwFetch
    \/ SwBranches
    \/ SwCheckout
    \/ FailSwPop
    \/ WaitFetch
    \/ WaitList
    \/ WaitSleep
    \/ RestorePop
    \/ RestoreList
    \/ RestoreApply
    \/ HasNewChanges
    \/ HncFetch
    \/ HncLocal
    \/ HncRemote
    \/ PullChanges
    \/ PullStatus
    \/ PullOldHash
    \/ PullPush
    \/ PullPull
    \/ PullNewHash
    \/ PullHook
    \/ FailPullPop
    \/ UpdHash
    \/ ClSetup
    \/ ClFetch
    \/ ClBranches
    \/ ClFetchBranch
    \/ ClCheckout
    \/ ClHash
    \/ ClHook
    \/ UserEdits
    \/ BranchCreated
    \/ RemoteCommit
    \/ UserCommits

(***************************************************************************)
(* generateAndWatchSDK and StainlessTools.clone (part_015)                 *)
(*                                                                         *)
(* A call runs synchronously up to the callee's first await, so the        *)
(* action that makes a call also moves the callee to that await.  The      *)
(* code after an await is resumed as a job of its own once the awaited     *)
(* promise has settled, so each continuation is an action of its own.      *)
(***************************************************************************)
\* clone()'s direct publishFiles() call never touches isPublishing
ClonePub == [NewPub(DebounceDelay, 0) EXCEPT !.byWatcher = FALSE]

ClonePubs == {i \in 1..Len(pubs) : ~pubs[i].byWatcher}

\* generateAndWatchSDK(options): new StainlessTools, then clone() up to
\* await this.fileWatcher.publishFiles() (lines 58-62, 319-322)
GenerateAndWatch ==
    /\ Running /\ phase = "new"
    /\ Len(pubs) < MaxInFlight
    /\ phase' = "publishing"
    /\ firstPublish' = "running"
    /\ pubs' = Append(pubs, ClonePub)
    /\ UNCHANGED <<repoVars, watcherCfg, watchers, isWatching, lastCall, publishTimeout,
                   isPublishing, timers, sinceChange, eventsPending, burstPubs,
                   arrivedDuringPublish, lastSettle, publishError, unpublished,
                   isPolling, pollTimers, cycles, cycle, logged, handlersOn, procEnd>>

\* generateAction returns (0 once generateAndWatchSDK resolved, 1 when it
\* rejected) and its finally removes handleExit (generate.ts lines 114-128)
HandlersAfterReturn(on) == FALSE

\* variant: clone() goes on to initializeRepo() whether or not the publish succeeded
CloneContinuesAnyway(settled) == TRUE

\* the await of publishFiles() in clone() rethrows a rejection (lines 322, 327-330)
CloneContinues(settled) == settled = "resolved"

\* clone() resumes after publishFiles(): await this.repoManager.initializeRepo()
\* (line 323), or the rejection leaves clone() and generateAndWatchSDK (lines 63-70)
CloneAfterPublish ==
    /\ Running /\ phase = "publishing" /\ ClonePubs = {}
    /\ firstPublish' = lastSettle
    /\ IF CloneContinues(lastSettle)
       THEN /\ phase' = "initializing"
            /\ CallInitializeRepo
            /\ UNCHANGED handlersOn
       ELSE /\ phase' = "rejected"
            /\ handlersOn' = HandlersAfterReturn(handlersOn)
            /\ UNCHANGED repoCtl
    /\ UNCHANGED <<watcherVars, repoCfg, repoEnv, repoRefs, repoCheck, repoWait,
                   isPolling, pollTimers, cycles, cycle, logged, procEnd>>

\* variant: clone() starts the watcher whether or not initializeRepo() succeeded
InitOutcomeIgnored(state) == TRUE

\* await this.repoManager.initializeRepo() resolved: a rejection skips
\* fileWatcher.start() and leaves generateAndWatchSDK (lines 323-330, 63-70)
InitSucceeded(state) == state = "ready"

\* clone() resumes after initializeRepo(): this.fileWatcher.start() (line 326);
\* generateAndWatchSDK resumes: isPolling = true and the first pollForChanges()
\* call, which runs up to await sdk.hasNewChanges() (lines 72, 80-84, 110);
\* generateAction resumes in the same turn of the event loop: cleanup is
\* assigned, it returns and its finally runs (generate.ts lines 98, 114-128)
CloneAfterInit ==
    /\ Running /\ phase = "initializing" /\ rpc = "idle"
    /\ initState \in {"ready", "failed"}
    /\ handlersOn' = HandlersAfterReturn(handlersOn)
    /\ IF InitSucceeded(initState)
       THEN /\ phase' = "polling"
            /\ StartWatching
            /\ isPolling' = TRUE
            /\ cycles' = 1
            /\ cycle' = "check"
            /\ CallHasNewChanges
       ELSE /\ phase' = "rejected"
            /\ UNCHANGED <<watchers, isWatching, lastCall, isPolling, cycles, cycle, repoCtl>>
    /\ UNCHANGED <<watcherCfg, publishTimeout, isPublishing, timers, pubs, sinceChange,
                   eventsPending, burstPubs, arrivedDuringPublish, lastSettle, publishError, unpublished,
                   repoCfg, repoEnv, repoRefs, repoCheck, repoWait,
                   pollTimers, firstPublish, logged, procEnd>>

\* variant: a failed cycle does not schedule the next poll
TimersAfterFailedCycleStops(n, failed) == IF failed THEN n ELSE n + 1

\* timeoutId = setTimeout(pollForChanges, ...) after the try/catch (line 106)
TimersAfterCycle(n, failed) == n + 1

\* the poll cycle ends: the catch logs a rejection, then the next poll is scheduled
CycleEnds(failed) ==
    /\ pollTimers < MaxPolls
    /\ pollTimers' = TimersAfterCycle(pollTimers, failed)
    /\ cycles' = cycles - 1
    /\ cycle' = "none"
    /\ logged' = IF failed THEN thrown.msg ELSE logged

\* variant: the poll loop skips the pull while a publish is executing
PollPullsWhenQuiet(newChanges, publishing) == newChanges /\ ~publishing

\* if (await sdk.hasNewChanges()) (line 84): the watcher's isPublishing is
\* not consulted
PollPulls(newChanges, publishing) == newChanges

\* pollForChanges resumes after await sdk.hasNewChanges() (lines 84-106)
PollAfterCheck ==
    /\ Running /\ cycle = "check" /\ op = "check" /\ rpc = "idle"
    /\ outcome \in {"returned", "threw"}
    /\ IF PollPulls(outcome = "returned" /\ checkResult, isPublishing)
       THEN /\ cycle' = "pull"
            /\ CallPullChanges
            /\ UNCHANGED <<pollTimers, cycles, logged>>
       ELSE /\ CycleEnds(outcome = "threw")
            /\ UNCHANGED repoCtl
    /\ UNCHANGED <<watcherVars, repoCfg, repoEnv, repoRefs, repoCheck, repoWait,
                   phase, isPolling, firstPublish, handlersOn, procEnd>>

\* pollForChanges resumes after await sdk.pullChanges() (lines 87-106)
PollAfterPull ==
    /\ Running /\ cycle = "pull" /\ op = "pull" /\ rpc = "idle"
    /\ outcome \in {"returned", "threw"}
    /\ CycleEnds(outcome = "threw")
    /\ UNCHANGED <<watcherVars, repoVars, phase, isPolling, firstPublish, handlersOn, procEnd>>

\* variant: the timer is re-armed when it fires, like setInterval
TimersAfterFireRearmed(n) == n

\* a fired setTimeout timer is gone
TimersAfterFire(n) == n - 1

\* variant: pollForChanges does not look at isPolling
PollIgnoresFlag(polling) == TRUE

\* if (!isPolling) return (line 80)
PollContinues(polling) == polling

\* a poll timer fires: pollForChanges() up to await sdk.hasNewChanges() (lines 79-84)
PollFire ==
    /\ Running /\ pollTimers > 0
    /\ pollTimers' = TimersAfterFire(pollTimers)
    /\ IF PollContinues(isPolling)
       THEN /\ cycles < MaxPolls
            /\ cycles' = cycles + 1
            /\ IF cycles = 0
               THEN cycle' = "check" /\ CallHasNewChanges
               ELSE \* a second cycle beside the one in flight: only counted
                    UNCHANGED <<cycle, repoCtl>>
       ELSE UNCHANGED <<cycles, cycle, repoCtl>>
    /\ UNCHANGED <<watcherVars, repoCfg, repoEnv, repoRefs, repoCheck, repoWait,
                   phase, isPolling, firstPublish, logged, handlersOn, procEnd>>

\* the cleanup function: isPolling = false, clearTimeout(timeoutId),
\* sdk.cleanup() -> fileWatcher.stop() (lines 118-122, 354-356)
CallCleanup ==
    /\ phase' = "stopped"
    /\ isPolling' = FALSE
    /\ pollTimers' = Max(0, pollTimers - 1)
    /\ StopWatching

\* the function generateAndWatchSDK returned is called by its holder
Cleanup ==
    /\ Running /\ phase = "polling"
    /\ CallCleanup
    /\ UNCHANGED <<repoVars, watcherCfg, isPublishing, pubs, sinceChange, burstPubs,
                   arrivedDuringPublish, lastSettle, publishError, unpublished,
                   cycles, cycle, firstPublish, logged, handlersOn, procEnd>>

\* let cleanup of generateAction holds the function: assigned when
\* generateAndWatchSDK has resolved (generate.ts lines 42, 98)
CleanupAssigned == phase \in {"polling", "stopped"}

\* SIGINT or SIGTERM reaches the process. With handleExit registered
\* (generate.ts lines 48-60): cleanup() if it is assigned, then
\* process.exit(0); with no handler the signal's default action ends the
\* process at once
Signal ==
    /\ Running /\ phase \in {"new", "publishing", "initializing", "polling", "stopped"}
    /\ IF handlersOn /\ CleanupAssigned
       THEN /\ procEnd' = "exit 0"
            /\ CallCleanup
            /\ UNCHANGED <<watcherCfg, isPublishing, pubs, sinceChange, burstPubs,
                           arrivedDuringPublish, lastSettle, publishError, unpublished>>
       ELSE /\ procEnd' = IF handlersOn THEN "exit 0" ELSE "killed"
            /\ UNCHANGED <<watcherVars, phase, isPolling, pollTimers>>
    /\ UNCHANGED <<repoVars, cycles, cycle, firstPublish, logged, handlersOn>>

ToolNext ==
    \/ GenerateAndWatch
    \/ PublishStep
    \/ CloneAfterPublish
    \/ CloneAfterInit
    \/ PollAfterCheck
    \/ PollAfterPull
    \/ PollFire
    \/ Cleanup
    \/ Signal
    \/ UpdRemotes
    \/ UpdFetch
    \/ SwRevparse
    \/ SwStatus
    \/ SwPush
    \/ SwFetch
    \/ SwBranches
    \/ SwCheckout
    \/ FailSwPop
    \/ WaitFetch
    \/ WaitList
    \/ WaitSleep
    \/ RestorePop
    \/ RestoreList
    \/ RestoreApply
    \/ HncFetch
    \/ HncLocal
    \/ HncRemote
    \/ PullChanges
    \/ PullStatus
    \/ PullOldHash
    \/ PullPush
    \/ PullPull
    \/ PullNewHash
    \/ PullHook
    \/ FailPullPop
    \/ UpdHash
    \/ ClSetup
    \/ ClFetch
    \/ ClBranches
    \/ ClFetchBranch
    \/ ClCheckout
    \/ ClHash
    \/ ClHook
    \/ UserEdits
    \/ BranchCreated
    \/ RemoteCommit
    \/ UserCommits

\* monitoring: the poll loop and the watcher's events beside each other
MonitorNext ==
    \/ FileChange
    \/ AdvanceTime
    \/ TimerFire
    \/ PublishStep
    \/ PollFire
    \/ PollAfterCheck
    \/ PollAfterPull
    \/ HncFetch
    \/ HncLocal
    \/ HncRemote
    \/ PullStatus
    \/ PullOldHash
    \/ PullPull
    \/ PullNewHash
    \/ PullHook
    \/ RemoteCommit

(***************************************************************************)
(* Specifications                                                          *)
(***************************************************************************)
\* the engine before initializeRepo(), on a directory that is no repository
RepoIdle ==
    /\ sdkName = FALSE
    /\ dirIsRepo = FALSE
    /\ originUrl = NoUrl
    /\ sdkRepo = HttpsUrl
    /\ remoteBranch = TRUE
    /\ treeDirty = FALSE
    /\ stash = <<>>
    /\ headOnTarget = FALSE
    /\ localBase = 0
    /\ localOwn = FALSE
    /\ originRef = 0
    /\ remoteTip = 0
    /\ trackedBranch \in (IF dirIsRepo /\ remoteBranch THEN BOOLEAN ELSE {FALSE})
    /\ waitAttempts = 0
    /\ lastAttempt = "none"
    /\ checkLocal = <<0, FALSE>>
    /\ checkResult = FALSE
    /\ initState = "none"
    /\ rpc = "idle"
    /\ op = "none"
    /\ hasLocalChanges = FALSE
    /\ outcome = "none"
    /\ exitCode = 0
    /\ thrown = NoError
    /\ cmds = <<>>

\* a coordinator that watches the spec file only and was never started
WatcherIdle ==
    /\ openApiFile = TRUE
    /\ stainlessConfigFile = FALSE
    /\ prePublishHook = FALSE
    /\ watchers = 0
    /\ isWatching = FALSE
    /\ publishTimeout = 0
    /\ isPublishing = FALSE
    /\ timers = {}
    /\ pubs = <<>>
    /\ sinceChange = DebounceDelay
    /\ eventsPending = 0
    /\ burstPubs = 0
    /\ arrivedDuringPublish = FALSE
    /\ lastSettle = "none"
    /\ lastCall = "none"
    /\ publishError = NoPublishError
    /\ unpublished = {}

\* no orchestrator: the caller drives the FileWatcher or the RepoManager itself
OrchLibrary ==
    /\ phase = "library"
    /\ isPolling = FALSE
    /\ pollTimers = 0
    /\ cycles = 0
    /\ cycle = "none"
    /\ firstPublish = "none"
    /\ logged = "none"
    /\ handlersOn = FALSE
    /\ procEnd = "running"

InitWatcherOnly == WatcherInit /\ RepoIdle /\ OrchLibrary

InitRepoOnly == RepoInit /\ WatcherIdle /\ OrchLibrary

\* generateAndWatchSDK is about to be called: the spec file is configured
\* (StainlessTools requires it), the configured URL is the https one
InitTool ==
    /\ openApiFile = TRUE
    /\ stainlessConfigFile \in BOOLEAN
    /\ prePublishHook = FALSE
    /\ watchers = 0
    /\ isWatching = FALSE
    /\ publishTimeout = 0
    /\ isPublishing = FALSE
    /\ timers = {}
    /\ pubs = <<>>
    /\ sinceChange = DebounceDelay
    /\ eventsPending = 0
    /\ burstPubs = 0
    /\ arrivedDuringPublish = FALSE
    /\ lastSettle = "none"
    /\ lastCall = "none"
    /\ publishError = NoPublishError
    /\ unpublished = {}
    /\ sdkName \in BOOLEAN
    /\ dirIsRepo \in BOOLEAN
    /\ sdkRepo = HttpsUrl
    /\ originUrl \in (IF dirIsRepo THEN {SshUrl, OtherUrl} ELSE {NoUrl})
    /\ remoteBranch \in BOOLEAN
    /\ treeDirty \in (IF dirIsRepo THEN BOOLEAN ELSE {FALSE})
    /\ stash \in (IF dirIsRepo THEN {<<>>, <<"user">>} ELSE {<<>>})
    /\ headOnTarget \in (IF dirIsRepo THEN BOOLEAN ELSE {FALSE})
    /\ localBase = 0
    /\ localOwn = FALSE
    /\ originRef = 0
    /\ remoteTip = 0
    /\ trackedBranch \in (IF dirIsRepo /\ remoteBranch THEN BOOLEAN ELSE {FALSE})
    /\ waitAttempts = 0
    /\ lastAttempt = "none"
    /\ checkLocal = <<0, FALSE>>
    /\ checkResult = FALSE
    /\ initState = "none"
    /\ rpc = "idle"
    /\ op = "none"
    /\ hasLocalChanges = FALSE
    /\ outcome = "none"
    /\ exitCode = 0
    /\ thrown = NoError
    /\ cmds = <<>>
    /\ phase = "new"
    /\ isPolling = FALSE
    /\ pollTimers = 0
    /\ cycles = 0
    /\ cycle = "none"
    /\ firstPublish = "none"
    /\ logged = "none"
    /\ handlersOn = TRUE     \* process.on("SIGINT" / "SIGTERM", handleExit), generate.ts lines 59-60
    /\ procEnd = "running"

\* the orchestrator driving the engine, from start-up to cleanup
SpecTool == InitTool /\ [][ToolNext]_vars

\* the Debounced Publish Coordinator on its own
SpecWatcher == InitWatcherOnly /\ [][WatcherNext]_vars

\* the Repository Synchronization Engine on its own
SpecRepo == InitRepoOnly /\ [][RepoNext]_vars

\* generateAndWatchSDK has just resolved after a fresh clone into an empty
\* directory: the watcher is on, the first poll cycle is awaiting
\* hasNewChanges(), generateAction has returned (part_015 lines 60-72, 110,
\* 319-326)
InitMonitoring ==
    /\ openApiFile = TRUE
    /\ stainlessConfigFile \in BOOLEAN
    /\ prePublishHook = FALSE
    /\ watchers = 1
    /\ isWatching = TRUE
    /\ publishTimeout = 0
    /\ isPublishing = FALSE
    /\ timers = {}
    /\ pubs = <<>>
    /\ sinceChange = DebounceDelay
    /\ eventsPending = 0
    /\ burstPubs = 0
    /\ arrivedDuringPublish = FALSE
    /\ lastSettle = "resolved"
    /\ lastCall = "start"
    /\ publishError = NoPublishError
    /\ unpublished = {}
    /\ sdkName = FALSE
    /\ dirIsRepo = FALSE
    /\ sdkRepo = HttpsUrl
    /\ originUrl = NoUrl
    /\ remoteBranch = TRUE
    /\ treeDirty = FALSE
    /\ stash = <<>>
    /\ headOnTarget = TRUE
    /\ localBase = 0
    /\ localOwn = FALSE
    /\ originRef = 0
    /\ remoteTip = 0
    /\ trackedBranch = TRUE
    /\ waitAttempts = 0
    /\ lastAttempt = "none"
    /\ checkLocal = <<0, FALSE>>
    /\ checkResult = FALSE
    /\ initState = "ready"
    /\ rpc = "hnc_fetch"
    /\ op = "check"
    /\ hasLocalChanges = FALSE
    /\ outcome = "none"
    /\ exitCode = 0
    /\ thrown = NoError
    /\ cmds = <<>>
    /\ phase = "polling"
    /\ isPolling = TRUE
    /\ pollTimers = 0
    /\ cycles = 1
    /\ cycle = "check"
    /\ firstPublish = "resolved"
    /\ logged = "none"
    /\ handlersOn = FALSE
    /\ procEnd = "running"

\* the poll loop and the publish coordinator during monitoring
SpecMonitor == InitMonitoring /\ [][MonitorNext]_vars

(***************************************************************************)
(* Properties                                                              *)
(***************************************************************************)
WatcherPubs == {i \in 1..Len(pubs) : pubs[i].byWatcher}

\* positions in cmds of command c, and of its successful runs
Issued(c) == {i \in 1..Len(cmds) : cmds[i].c = c}

Succeeded(c) == {i \in Issued(c) : cmds[i].ok}

Failed(c) == {i \in Issued(c) : ~cmds[i].ok}

StashCommands == {"stash push", "stash pop", "stash list", "stash apply"}

\* the operation in op is over: it returned, threw or ended the process
Ended == outcome # "none"

\* C1: over every interleaving of start(), stop(), change events, timer
\* firings and publish completions or failures, at most one watcher-triggered
\* publishFiles() call is executing.
C1_SingleFlightPublish == Cardinality(WatcherPubs) <= 1

\* a change event arrived while the one publish was executing
C1_Witness == Cardinality(WatcherPubs) = 1 /\ arrivedDuringPublish

\* C2: a burst of change events accepted while no publish executes leaves
\* exactly one timer pending, which cannot fire before DebounceDelay has
\* passed since the last event; the burst starts exactly one publishFiles()
\* call, and that call starts no earlier than 1000 ms after the last event.
C2_BurstPublishesOnceAfterDelay ==
    /\ burstPubs <= 1
    /\ \A i \in WatcherPubs : pubs[i].waited >= 1000
    /\ eventsPending > 0 =>
          /\ burstPubs = 0
          /\ ~isPublishing
          /\ Cardinality(timers) = 1
          /\ \A t \in timers : t.remaining + sinceChange >= 1000

\* a publish that serves a burst of at least two events is executing
C2_Witness == \E i \in WatcherPubs : pubs[i].served >= 2 /\ burstPubs = 1

\* C3 (as claimed): once pullChanges() or the branch switch has pushed a
\* stash entry, a stash pop is attempted before the operation returns, throws
\* or exits.
C3_PopAttemptedAfterEveryPush ==
    (Ended /\ op \in {"pull", "switch"}) =>
        \A i \in Succeeded("stash push") : \E j \in Issued("stash pop") : j > i

\* C4 (as claimed): dirty tree at the start of pullChanges() and a failing
\* git pull end with a stash pop attempt, the manual-recovery notice and
\* exit code 1.
C4_FailedDirtyPullExits ==
    (Ended /\ op = "pull" /\ hasLocalChanges /\ Failed("pull") # {}) =>
        /\ Issued("stash pop") # {}
        /\ Issued("notice update-manually") # {}
        /\ exitCode = 1

\* the engine holds a stash entry it pushed in this operation and did not pop
StashOutstanding ==
    \E i \in Succeeded("stash push") :
        cmds[i].hit /\ \A j \in Succeeded("stash pop") : j < i

\* C5 (as claimed): a failure while a stash entry pushed by the engine is
\* outstanding never reaches the poll loop as an ordinary error after which
\* polling continues; it ends the process with exit code 1.
C5_NoThrowWithStashOutstanding ==
    (op = "pull" /\ initState = "ready" /\ outcome = "threw") => ~StashOutstanding

\* C6 (as claimed): dirty tree at the start of pullChanges() and a
\* successful git pull give stash push, git pull, stash pop in that order,
\* each exactly once.
C6_PushPullPopOnce ==
    (Ended /\ op = "pull" /\ hasLocalChanges /\ Succeeded("pull") # {}) =>
        /\ Cardinality(Issued("stash push")) = 1
        /\ Cardinality(Issued("pull")) = 1
        /\ Cardinality(Issued("stash pop")) = 1
        /\ \A i \in Issued("stash push") : \A j \in Issued("pull") :
              \A k \in Issued("stash pop") : i < j /\ j < k

\* C7: a pullChanges() call that found the working tree clean issues no
\* stash command, whether the pull succeeds or fails.
C7_CleanPullNeverStashes ==
    (op = "pull" /\ ~hasLocalChanges) =>
        /\ \A i \in 1..Len(cmds) : cmds[i].c \notin StashCommands
        /\ rpc \notin {"pull_push", "restore_pop", "restore_list", "restore_apply",
                       "failpull_pop"}

\* a clean pull failed and was reported to the caller
C7_Witness ==
    /\ op = "pull" /\ ~hasLocalChanges /\ outcome = "threw"
    /\ Failed("pull") # {}

\* C8: in one pullChanges() call the post-update hook runs at most once, only
\* after a successful git pull and, when changes were stashed, after a
\* successful stash pop; never after a failed pull or a failed restore.
C8_HookOnlyAfterPullAndRestore ==
    op = "pull" =>
        /\ Cardinality(Issued("postUpdate")) <= 1
        /\ \A h \in Issued("postUpdate") :
              /\ \E p \in Succeeded("pull") : p < h
              /\ hasLocalChanges =>
                    \E p \in Succeeded("pull") : \E q \in Succeeded("stash pop") :
                        p < q /\ q < h
              /\ Failed("pull") = {}
              /\ Failed("stash pop") = {}

\* the hook ran after the stash was restored
C8_Witness ==
    /\ op = "pull" /\ hasLocalChanges /\ outcome = "returned"
    /\ Succeeded("postUpdate") # {}

\* stash list ran after a failed stash pop and showed an entry
ListShowedEntry == \E i \in Succeeded("stash list") : cmds[i].hit

\* C9: when stash pop fails in restoreStashedChanges and the stash list shows
\* an entry, the engine runs stash apply and then exits with code 1 whether
\* the apply succeeded or not, and the entry is still in the stash.
C9_ApplyThenExitKeepsStash ==
    /\ (ListShowedEntry /\ rpc # "restore_apply") =>
          /\ Issued("stash apply") # {}
          /\ exitCode = 1
    /\ ListShowedEntry => stash # <<>>
    /\ Issued("stash apply") # {} => (exitCode = 1 /\ ListShowedEntry)

\* the apply succeeded and the process exited with the entry kept
C9_Witness ==
    /\ Succeeded("stash apply") # {} /\ exitCode = 1 /\ stash # <<>>

\* C10 (as claimed): once the publish during which a change event arrived has
\* completed, a fresh debounce timer is pending.
C10_FreshTimerAfterPublish ==
    (arrivedDuringPublish /\ ~isPublishing) => timers # {}

\* C10 (amended): a change event that arrives while a publish is executing
\* cancels the pending timer and schedules none, and none is pending after
\* that publish completes until another change event arrives.
C10_DroppedEventSchedulesNothing ==
    arrivedDuringPublish => (timers = {} /\ publishTimeout = 0 /\ eventsPending = 0)

\* the publish completed without the edit and nothing is scheduled
C10_Witness ==
    /\ arrivedDuringPublish /\ ~isPublishing /\ pubs = <<>>
    /\ unpublished # {} /\ timers = {}

\* C11: once a watcher-triggered publishFiles() call has settled, resolved or
\* rejected, isPublishing is false again; a change event accepted after that
\* has exactly one timer pending for it, the one publishTimeout refers to,
\* and its burst starts at most one publishFiles() call.
C11_FlagLoweredAndNextEventPublishes ==
    /\ WatcherPubs = {} => ~isPublishing
    /\ (lastSettle # "none" /\ eventsPending > 0) =>
          /\ burstPubs = 0
          /\ \E t \in timers : t.id = publishTimeout
    /\ lastSettle # "none" => burstPubs <= 1

\* after a rejected publish, one event waited out the delay and started the
\* one publish now executing
C11_Witness ==
    \E i \in WatcherPubs : /\ pubs[i].after = "rejected"
                           /\ pubs[i].served = 1
                           /\ pubs[i].waited = DebounceDelay
                           /\ burstPubs = 1

\* C12: at most one debounce timer is pending, and a pending timer is the
\* one publishTimeout refers to: a timer superseded by a later event is no
\* longer pending, so it cannot fire.
C12_OnePendingTimer ==
    /\ Cardinality(timers) <= 1
    /\ \A t \in timers : t.id = publishTimeout

\* a second event has just replaced the timer of the first
C12_Witness ==
    /\ eventsPending >= 2
    /\ sinceChange = 0
    /\ \E t \in timers : t.remaining = DebounceDelay

\* C14: when git pull rejects in a pullChanges() that found the working tree
\* clean (so pushed no stash), pullChanges() rejects with the StainlessError
\* "Failed to pull changes" whose cause is the pull failure; no stash command
\* ran and the process was not terminated.
C14_CleanPullFailureRejects ==
    (op = "pull" /\ Ended /\ ~hasLocalChanges /\ Failed("pull") # {}) =>
        /\ outcome = "threw"
        /\ exitCode = 0
        /\ thrown.msg = "Failed to pull changes"
        /\ thrown.cause = "pull"
        /\ \A i \in 1..Len(cmds) : cmds[i].c \notin StashCommands

\* a poll-time pull on a clean tree failed at git pull
C14_Witness ==
    /\ op = "pull" /\ initState = "ready" /\ outcome = "threw"
    /\ ~hasLocalChanges /\ Failed("pull") # {}

\* the configured URL and the directory's remote name different repositories
DifferentRepository ==
    dirIsRepo /\ originUrl # NoUrl /\ ~IsSameRepository(originUrl, sdkRepo)

\* C19: on an existing directory whose remote does not resolve to the
\* org/repo path of the configured URL, initializeRepo() never gets past the
\* identity check: it issues no command but getRemotes (no fetch, stash,
\* checkout or pull), never becomes ready, and rejects with the error that
\* names the directory's URL and the configured URL.
C19_MismatchRejectsUntouched ==
    (DifferentRepository /\ initState # "none") =>
        /\ initState \in {"running", "failed"}
        /\ rpc \in {"upd_remotes", "idle"}
        /\ op = "none"
        /\ \A i \in 1..Len(cmds) : cmds[i].c = "getRemotes"
        /\ (initState = "failed" /\ Succeeded("getRemotes") # {}) =>
              /\ thrown.msg = "Directory contains a different repository"
              /\ thrown.urls = <<originUrl, sdkRepo>>

\* initializeRepo() rejected a directory holding other/repo
C19_Witness ==
    /\ initState = "failed"
    /\ thrown.urls = <<OtherUrl, HttpsUrl>>

\* the three spellings of org/repo on one host
SameRepoForms == {SshUrl, HttpsUrl, SshPortUrl}

\* C20: the scp-like, https and ssh-with-port spellings of org/repo compare
\* as the same repository, in either order; on an existing directory whose
\* remote is one spelling while another is configured, initializeRepo()
\* goes on to fetch after the identity check and never rejects with the
\* different-repository error.
C20_UrlFormsAreSameRepository ==
    /\ \A u \in SameRepoForms : \A v \in SameRepoForms : IsSameRepository(u, v)
    /\ (dirIsRepo /\ originUrl \in SameRepoForms /\ sdkRepo \in SameRepoForms) =>
          /\ thrown.msg # "Directory contains a different repository"
          /\ (initState = "running" /\ op = "none" /\ Succeeded("getRemotes") # {}) =>
                rpc = "upd_fetch"

\* a directory cloned over ssh was updated with the https URL configured
C20_Witness ==
    /\ dirIsRepo /\ originUrl = SshUrl /\ sdkRepo = HttpsUrl
    /\ initState = "ready" /\ op = "pull" /\ Succeeded("pull") # {}

\* the last engine operation was a hasNewChanges() call that returned
CheckReturned == op = "check" /\ outcome = "returned"

\* C17: a hasNewChanges() call that returned gave false when the local tip
\* it read is the commit origin/<branch> points to after its fetch, and gave
\* true when the local branch lacks a commit that fetch brought in; so it
\* gives false again once a pull has merged that commit and the remote has
\* not moved.
C17_NewChangesIffHashesDiffer ==
    CheckReturned =>
        /\ (checkLocal = LocalHash /\ ~localOwn /\ localBase = originRef) => ~checkResult
        /\ localBase < originRef => checkResult
        /\ checkResult = (checkLocal # RemoteHash(originRef))

\* an existing checkout pulled the remote-only commit, and the check that
\* followed returned false
C17_Witness ==
    /\ CheckReturned /\ ~checkResult
    /\ dirIsRepo /\ localBase = 1 /\ remoteTip = 1

\* C13: at most one hasNewChanges()/pullChanges() poll cycle is in flight,
\* at most one poll timer is pending, and no timer is pending while a cycle
\* is in flight: the next poll is scheduled only when the cycle has ended.
C13_OnePollCycleInFlight ==
    /\ cycles <= 1
    /\ pollTimers <= 1
    /\ cycles = 1 => pollTimers = 0

\* a later cycle, started by the timer an earlier cycle scheduled, is pulling
C13_Witness ==
    /\ cycles = 1 /\ cycle = "pull" /\ rpc = "pull_pull"
    /\ logged # "none"

\* C15: while the process runs and cleanup has not been called, the poll
\* loop is never dead: either a cycle is in flight or the timer of the next
\* poll is pending, also after a cycle in which hasNewChanges() or
\* pullChanges() rejected; the error of such a cycle is the one logged.
C15_PollingSurvivesRejection ==
    (phase = "polling" /\ Running) =>
        /\ cycles + pollTimers = 1
        /\ (cycle = "none" /\ outcome = "threw") =>
              /\ pollTimers = 1
              /\ logged = thrown.msg

\* hasNewChanges() rejected, the error was logged and the next poll is scheduled
C15_Witness ==
    /\ phase = "polling" /\ Running
    /\ cycle = "none" /\ op = "check" /\ outcome = "threw"
    /\ logged = "Failed to check for new changes"
    /\ pollTimers = 1

\* a step in which a hasNewChanges() call begins
CheckBegins == rpc # "hnc_fetch" /\ rpc' = "hnc_fetch"

\* C16: once cleanup has been called no hasNewChanges() call begins, polling
\* is off and the watcher has no open handle and no pending timer; the
\* cleanup step itself leaves the engine operation, the poll cycle and the
\* publishFiles() calls in flight as they are.
C16_CleanupStopsFutureWorkOnly ==
    [][/\ phase' = "stopped" =>
             /\ ~CheckBegins
             /\ ~isPolling'
             /\ watchers' = 0 /\ ~isWatching' /\ timers' = {}
       /\ (phase = "polling" /\ phase' = "stopped") =>
             UNCHANGED <<rpc, op, outcome, cycles, cycle, pubs>>]_vars

\* the cycle that was in flight when cleanup was called ran to its end
C16_Witness ==
    /\ phase = "stopped"
    /\ cycles = 0 /\ pollTimers = 1
    /\ op = "pull" /\ outcome = "returned"

\* C18 (as claimed): the first publishFiles() call starts only after
\* initializeRepo() has completed.
C18_InitBeforeFirstPublish ==
    firstPublish # "none" => initState = "ready"

\* C18 (amended): clone() publishes first: initializeRepo() starts only after
\* the first publishFiles() call has resolved, and never if it rejected.
C18_FirstPublishBeforeInit ==
    /\ initState # "none" => (firstPublish = "resolved" /\ ClonePubs = {})
    /\ firstPublish \in {"running", "rejected"} => initState = "none"

\* the first publish resolved and initializeRepo() is running
C18_Witness ==
    /\ firstPublish = "resolved"
    /\ initState = "running" /\ rpc \in {"upd_remotes", "cl_setup"}

\* C21 (as claimed): whenever the fresh-clone path ended with the checkout
\* succeeded and a hook configured, the post-clone hook was invoked exactly once.
C21_HookOnceWheneverCheckoutSucceeds ==
    (op = "clone" /\ Ended /\ sdkName /\ Succeeded("checkout -b") # {}) =>
        Cardinality(Issued("postClone")) = 1

\* C21 (amended): the post-clone hook is invoked at most once, only on the
\* fresh-clone path with sdkName set, after the checkout and the commit-hash
\* read that follows it both succeeded, and with the configured branch; it
\* is invoked exactly once when that read succeeded, and never on a
\* directory that already held a repository.
C21_PostCloneOnceAfterCheckoutAndHash ==
    /\ Cardinality(Issued("postClone")) <= 1
    /\ \A i \in Issued("postClone") :
          /\ op = "clone" /\ ~dirIsRepo /\ sdkName
          /\ cmds[i].branch = Branch
          /\ \E j \in Succeeded("checkout -b") : \E k \in Succeeded("log") : j < k /\ k < i
    /\ (op = "clone" /\ Ended /\ sdkName /\ Succeeded("log") # {}) =>
          Cardinality(Issued("postClone")) = 1
    /\ dirIsRepo => Issued("postClone") = {}

\* a fresh clone completed and its hook ran
C21_Witness ==
    /\ op = "clone" /\ outcome = "returned" /\ initState = "ready"
    /\ Succeeded("postClone") # {}

\* a branch list in which origin/<branch> was seen
RefObserved == {i \in Succeeded("branch -r") : cmds[i].hit}

WaitPcs == {"wait_fetch", "wait_list", "wait_sleep"}

\* C22: on the fresh-clone path the target branch is never checked out (nor
\* fetched by name) before a remote branch list has shown origin/<branch>, and
\* while the engine waits for the ref no checkout has been attempted.
C22_CheckoutOnlyAfterRefObserved ==
    op = "clone" =>
        /\ \A i \in Issued("checkout -b") \cup Issued("fetch origin branch") :
              \E j \in RefObserved : j < i
        /\ rpc \in WaitPcs =>
              /\ RefObserved = {}
              /\ Issued("checkout -b") = {}

\* the first list of a fresh clone missed the ref, the engine waited, a later
\* list showed it and the checkout succeeded
C22_Witness ==
    /\ op = "clone" /\ lastAttempt = "present"
    /\ \E i \in Succeeded("branch -r") : ~cmds[i].hit
    /\ Succeeded("checkout -b") # {}

\* what a step taken while the engine is inside waitForRemoteBranch() may do
WaitStep ==
    rpc \in WaitPcs =>
        /\ outcome' = "none" /\ exitCode' = 0
        /\ rpc' \notin WaitPcs =>
              /\ rpc = "wait_list" /\ trackedBranch
              /\ lastAttempt' = "present"
              /\ rpc' = IF op = "clone" THEN "cl_fetch_branch" ELSE "sw_checkout"
        /\ (waitAttempts' # waitAttempts \/ lastAttempt' # lastAttempt) =>
              \/ lastAttempt' = "present"
              \/ rpc' = "wait_sleep"
        /\ (rpc = "wait_sleep" /\ rpc' # rpc) => rpc' = "wait_fetch"

\* C23: a step of waitForRemoteBranch() never rejects or ends the process; it
\* leaves the wait only from a list that followed a successful fetch and
\* showed origin/<branch>, returning to its caller; an attempt that failed is
\* followed by the delay, and the delay by another attempt.
C23_WaitReturnsOnlyOnPresentNeverRejects == [][WaitStep]_vars

\* an attempt failed, the delay passed and the next attempt is under way
C23_Witness ==
    /\ rpc = "wait_fetch" /\ outcome = "none"
    /\ lastAttempt \in {"fetch failed", "list failed"}
    /\ waitAttempts >= 1

\* a step of the wait loop that did not see the ref stays in the loop, however
\* many attempts were made; a list that succeeds with the ref known leaves it
RetryStep ==
    /\ (rpc \in WaitPcs /\ lastAttempt' # "present") =>
          /\ rpc' \in WaitPcs
          /\ outcome' = "none"
    /\ (rpc = "wait_sleep" /\ rpc' # rpc) =>
          /\ rpc' = "wait_fetch"
          /\ waitAttempts' = waitAttempts
    /\ (rpc = "wait_list" /\ rpc' # rpc /\ trackedBranch /\ lastAttempt' # "list failed") =>
          rpc' \notin WaitPcs

\* C24: waitForRemoteBranch() has no retry bound: after any number of attempts
\* that did not see origin/<branch> it goes on to the delay and the next
\* attempt, and it ends with the first attempt whose fetch and list succeed
\* once the ref exists.
C24_WaitRetriesWithoutBound == [][RetryStep]_vars

\* as many unsuccessful attempts as the model counts were made and the next
\* attempt is under way
C24_Witness ==
    /\ rpc = "wait_fetch" /\ outcome = "none"
    /\ waitAttempts = MaxWaits
    /\ lastAttempt = "absent"

\* a fetch or checkout of the branch switch rejected after the engine's stash
\* push had succeeded
SwitchFailedAfterStash ==
    /\ op = "switch" /\ hasLocalChanges
    /\ \E i \in Succeeded("stash push") :
          \E j \in Failed("fetch") \cup Failed("checkout") : i < j

\* C25 (as claimed): when the fetch or the checkout of a branch switch fails
\* after local changes were stashed, the operation ends with a stash pop
\* attempt, the manual-recovery notice and exit code 1.
C25_FailedDirtySwitchExits ==
    (Ended /\ SwitchFailedAfterStash) =>
        /\ Issued("stash pop") # {}
        /\ Issued("notice switch-manually") # {}
        /\ exitCode = 1

\* the stash entries the engine pushed that are still in the stash
EngineEntries == {i \in 1..Len(stash) : stash[i] = "engine"}

\* C26 (as claimed): over any sequence of initializations, branch switches
\* and pulls of one running instance the stash holds at most one entry
\* pushed by the engine.
C26_AtMostOneEngineStash == Running => Cardinality(EngineEntries) <= 1

\* what a start() call that finds isWatching set, and a stop() call that
\* finds it clear, may change
RedundantCall ==
    /\ lastCall' # lastCall
    /\ lastCall' \in {"start while watching", "stop while stopped"}

IdempotentStep ==
    /\ RedundantCall =>
          UNCHANGED <<watchers, isWatching, publishTimeout, timers, eventsPending,
                      isPublishing, pubs>>
    /\ watchers' = IF isWatching' THEN 1 ELSE 0

\* C27: start() called while watching adds no watch handle (and so no change
\* handler), stop() called when stopped changes nothing, and the watcher has
\* one handle exactly when it is watching.
C27_StartStopIdempotent == [][IdempotentStep]_vars

\* start() was just called on a watcher that was already watching
C27_Witness ==
    /\ lastCall = "start while watching"
    /\ isWatching /\ watchers = 1

\* what a step may do to the debounce timers and the publishes of a watcher
\* that is, or has just been, stopped
StoppedStep ==
    /\ ~isWatching' => timers' = {}
    /\ ~isWatching => Cardinality(WatcherPubs') <= Cardinality(WatcherPubs)

\* C28: stop() leaves no debounce timer pending, so the timer of the events
\* received before it cannot fire, and no watcher publish starts while the
\* watcher is stopped.
C28_StopCancelsPendingTimer == [][StoppedStep]_vars

\* stop() has just been called while the timer of an unpublished change was
\* pending
C28_Witness ==
    /\ lastCall = "stop with timer pending"
    /\ ~isWatching /\ timers = {}
    /\ unpublished # {}

\* the publishFiles() calls that have reached stainlessApi.publish()
Uploading == {i \in 1..Len(pubs) : pubs[i].pc = "upload"}

\* C29: a publishFiles() call reaches the Spec Publisher only with a spec
\* path configured, after the pre-publish hook (when one runs) resolved and
\* after every configured file was read; without a spec path a call rejects
\* before it runs a hook or reads a file.
C29_UploadOnlyAfterHookAndReads ==
    /\ \A i \in Uploading :
          /\ openApiFile
          /\ prePublishHook => pubs[i].hooked
          /\ WatchPaths \subseteq pubs[i].read
    /\ ~openApiFile =>
          /\ pubs = <<>>
          /\ lastSettle \in {"none", "rejected"}

\* a call with a hook and both files configured has reached the upload
C29_Witness ==
    \E i \in Uploading :
        /\ prePublishHook /\ stainlessConfigFile
        /\ pubs[i].hooked
        /\ pubs[i].read = {"spec", "config"}

\* the engine's last operation rejected because its last command failed
EngineWrapped == outcome = "threw" /\ cmds # <<>> /\ ~cmds[Len(cmds)].ok

\* the engine's error has the failed command's error as its cause
EngineErrorHasCause == EngineWrapped => thrown.cause = cmds[Len(cmds)].c

\* the error of publishFiles() has the failure it was raised for as its cause
PublishErrorHasCause == publishError.wraps # "none" => publishError.cause = publishError.wraps

\* C30 (as claimed): an error raised by wrapping a lower-level failure has
\* that failure as its cause, for the publisher and the publishFiles() call as
\* for the engine.
C30_WrappedErrorsCarryCause == EngineErrorHasCause /\ PublishErrorHasCause

\* a signal ended the process while the tool was monitoring
SignalledWhileMonitoring == procEnd # "running" /\ phase \in {"polling", "stopped"}

\* C31 (as claimed): a SIGINT or SIGTERM that arrives while monitoring runs
\* has the cleanup function called (poll loop stopped, no poll timer, file
\* watcher stopped) and the process exits with code 0.
C31_SignalCleansUpAndExitsZero ==
    SignalledWhileMonitoring =>
        /\ procEnd = "exit 0"
        /\ phase = "stopped" /\ ~isPolling /\ pollTimers = 0
        /\ ~isWatching

\* C32 (as claimed): when a signal ends the process, no stash entry that the
\* engine pushed in the operation under way is left unrestored.
C32_InterruptRestoresStash ==
    procEnd # "running" => ~(StashOutstanding /\ EngineEntries # {})

\* the watcher was started or the poll loop has begun
MonitoringBegan ==
    \/ isWatching \/ watchers > 0 \/ lastCall # "none"
    \/ isPolling \/ cycles > 0 \/ pollTimers > 0 \/ cycle # "none"
    \/ phase \in {"polling", "stopped"}

\* C33: the file watcher is started and a poll cycle or poll timer exists
\* only after the initial publish resolved and initializeRepo() succeeded;
\* when generateAndWatchSDK has rejected, one of the two failed and neither
\* the watcher nor the poll loop was started.
C33_MonitoringOnlyAfterPublishAndInit ==
    /\ MonitoringBegan => (firstPublish = "resolved" /\ initState = "ready")
    /\ phase = "rejected" =>
          /\ firstPublish = "rejected" \/ initState = "failed"
          /\ ~MonitoringBegan

\* monitoring has just begun: the watcher is on and the first poll cycle awaits
\* its check, after a resolved publish and a successful initialization
C33_Witness ==
    /\ phase = "polling" /\ isWatching /\ lastCall = "start"
    /\ cycles = 1 /\ cycle = "check" /\ pollTimers = 0
    /\ firstPublish = "resolved" /\ initState = "ready"

\* the tool is run again on the directory it cloned: the directory's remote
\* is the configured URL, which StainlessTools accepted as a valid git URL
RerunOnOwnClone == dirIsRepo /\ originUrl = sdkRepo /\ IsValidGitUrl(sdkRepo)

\* C34 (as claimed): every URL that isValidGitUrl accepts is the same
\* repository as itself, so initializeRepo() on a directory whose remote is
\* the configured URL never rejects with the different-repository error.
C34_ValidUrlMatchesItself ==
    RerunOnOwnClone =>
        /\ thrown.msg # "Directory contains a different repository"
        /\ (initState = "running" /\ op = "none" /\ Succeeded("getRemotes") # {}) =>
              rpc = "upd_fetch"

\* the local branch, as hasNewChanges() read it, lacks a commit of origin/<branch>
RemoteAhead == checkLocal[1] < originRef

\* C35 (as claimed): hasNewChanges() returns true only when the remote branch
\* has a commit the local branch lacks, so a poll cycle calls pullChanges()
\* only then.
C35_TrueOnlyWhenRemoteAhead ==
    /\ (CheckReturned /\ checkResult) => RemoteAhead
    /\ (cycle = "pull" /\ rpc = "pull_status") => RemoteAhead

\* the stash restores issued so far in the running operation that took effect
Restores == Succeeded("stash pop") \cup Succeeded("stash apply")

\* C36 (as claimed): every stash pop or stash apply of the engine acts on an
\* entry that the engine pushed earlier in the same operation; an entry that
\* was on the stash before the operation is never popped or applied, even if
\* the working tree changes between the dirty check and the stash push.
C36_RestoresOnlyOwnEntry ==
    \A j \in Restores :
        \E i \in Succeeded("stash push") : i < j /\ cmds[i].hit

\* C37 (as claimed): once the cleanup function has been called, no poll timer
\* is scheduled or left pending, also when cleanup is called while a poll
\* cycle is in flight.
C37_NoPollTimerAfterCleanup ==
    phase = "stopped" => pollTimers = 0

\* a pullChanges() call of the poll loop is awaiting a git command
PullInFlight == cycle = "pull" /\ op = "pull" /\ rpc # "idle"

\* a publishFiles() call started by the debounce timer has not settled
PublishInFlight == isPublishing /\ pubs # <<>>

\* the poll loop resumes from hasNewChanges(), which reported new changes
CheckFoundChanges ==
    /\ cycle = "check" /\ cycle' # "check"
    /\ outcome = "returned" /\ checkResult

\* a debounce timer fired while no publish was executing
TimerFiredIdle == Cardinality(timers') < Cardinality(timers) /\ ~isPublishing

LoopsStep ==
    /\ CheckFoundChanges => (cycle' = "pull" /\ rpc' = "pull_status")
    /\ TimerFiredIdle => (Len(pubs') = Len(pubs) + 1 /\ isPublishing')
    /\ (PullInFlight /\ rpc' # rpc) => pubs' = pubs
    /\ (PublishInFlight /\ pubs' # pubs) => rpc' = rpc

\* C38: the poll loop and the publish loop are not mutually excluded. A poll
\* cycle that found new changes starts pullChanges() whether or not a publish
\* is executing, a debounce timer that fires while no publish is executing
\* starts publishFiles() whether or not a pull is in flight, and a step of
\* either leaves the other where it was.
C38_LoopsNotMutuallyExcluded == [][LoopsStep]_vars

\* a poll-driven pullChanges() and a watcher-triggered publishFiles() in
\* flight at the same time
C38_Witness ==
    /\ PullInFlight /\ rpc = "pull_pull"
    /\ PublishInFlight /\ burstPubs > 0
    /\ \E i \in 1..Len(pubs) : pubs[i].pc = "upload"

\* C39: whenever a debounce timer is pending, and so whenever one fires,
\* isPublishing is false: a pending debounce timer and an executing
\* watcher-triggered publish never coexist, and the timer callback's second
\* isPublishing check never takes its early-return branch.
C39_NoTimerWhilePublishing ==
    \A t \in timers : ~isPublishing /\ ~CallbackReturnsEarly(isPublishing)

\* a change arrived while the publish a fired timer started was executing,
\* and no timer was scheduled for it
C39_Witness ==
    /\ isPublishing /\ pubs # <<>> /\ timers = {}
    /\ arrivedDuringPublish /\ sinceChange = 0

====
